---- MODULE Spec2Model ----
(***************************************************************************)
(* A model of yuehua_ziniao_webdriver: the retrying HTTP client            *)
(* (http_client.py), the browser session handle (browser.py) and the       *)
(* store manager with its listing cache and batch opener (store.py).       *)
(*                                                                         *)
(* The specifications share the module, one per component:                 *)
(*   SpecHttp     HttpClient.send_request, one attempt per step            *)
(*   SpecSession  one BrowserSession driven by concurrent threads          *)
(*   SpecStore    StoreManager operations run by concurrent threads        *)
(*   SpecBatch    StoreManager.open_stores_by_names and its worker pool    *)
(*   SpecClient   ZiniaoClient.start, stop and the guarded methods         *)
(*   SpecUpdate   ZiniaoClient.update_core polling through send_request    *)
(* The variables of the components a specification does not drive keep     *)
(* their initial values.                                                   *)
(***************************************************************************)
EXTENDS Integers, Sequences, FiniteSets, TLC

(***************************************************************************)
(* Bounds of the model.                                                    *)
(***************************************************************************)
\* largest configured max_retries explored
MaxRetries == 2
\* number of logical send_request calls explored in a row
MaxCalls == 2
\* threads that share one BrowserSession
NumThreads == 2
\* close() calls explored on one BrowserSession
MaxCloses == 3
\* getBrowserList requests explored
MaxListings == 2
\* startBrowser requests explored
MaxOpens == 1
\* longest list of names given to open_stores_by_names
MaxNames == 2
\* largest max_workers given to open_stores_by_names
MaxWorkers == 2
MaxClientCalls == 3
\* largest max_wait_time given to update_core, in seconds
MaxWait == 3
\* longest time one send_request call is seen to take, in seconds
MaxDelay == 1

(***************************************************************************)
(* Program constants.                                                      *)
(***************************************************************************)
\* the reserved statusCode of an authentication failure
AUTH_FAILED == -10003

\* time.sleep(2) between two polls of update_core
SleepSeconds == 2

\* the result before a call has ended
NoResult == [kind |-> "none"]

(***************************************************************************)
(* HttpClient state.                                                       *)
(***************************************************************************)
VARIABLES
    max_retries,    \* HttpClient.max_retries, set at construction
    h_pc,           \* "idle" | "loop" (inside the for loop) | "done"
    retry_on_none,  \* the argument of the current call
    data,           \* the request dict of the current call: [requestId |-> n]
    attempt,        \* the loop variable of send_request
    outcomes,       \* what each attempt of the current call met, in order
    wire,           \* the requestId carried by each POST of the current call
    sleeps,         \* time.sleep(retry_delay) calls taken by the current call
    h_result,       \* NoResult, or how the call ended
    uuid_next,      \* the source of uuid.uuid4(): never hands out a value twice
    used_ids,       \* requestIds that earlier calls put on the wire
    calls,          \* logical calls started so far
    last_exception  \* whether last_exception is set (not None)

httpVars == <<max_retries, h_pc, retry_on_none, data, attempt, outcomes, wire,
              sleeps, h_result, uuid_next, used_ids, calls, last_exception>>

\* BrowserSession state (browser.py)
VARIABLES
    closed,          \* BrowserSession._closed
    browser,         \* BrowserSession._browser: "Chromium" or "None"
    close_callback,  \* whether a close_callback was given
    ip_check_url,    \* whether ip_check_url is set
    launcher_page,   \* whether launcher_page is set
    teardown,        \* how many times close_callback has been invoked
    callback_error,  \* whether a close() has logged a failure of its callback
    s_pc,            \* per thread: where it is inside close()
    s_res,           \* per thread: how its last finished operation ended
    close_calls,     \* close() calls begun so far
    overlapped       \* whether a close() began while another was in progress

sessionVars == <<closed, browser, close_callback, ip_check_url, launcher_page,
                 teardown, callback_error, s_pc, s_res, close_calls,
                 overlapped>>

\* StoreManager state (store.py) and the threads that call into it
VARIABLES
    cache,      \* StoreManager._store_list_cache: 0 for None, else a reference
    lists,      \* the list objects created so far; a reference is an index
    th,         \* per thread: its program counter and the locals of its call
    n_listing,  \* getBrowserList requests sent so far
    n_open      \* startBrowser requests sent so far

storeVars == <<cache, lists, th, n_listing, n_open>>

\* open_stores_by_names state (store.py:310-370)
VARIABLES
    b_pc,         \* "idle" | "collect" (inside the with block) | "returned"
    store_names,  \* the names argument
    max_workers,  \* the max_workers argument
    exact_mode,   \* the exact_match_mode argument
    futures,      \* per submitted task: "queued", "running" or its result
    yielded,      \* the tasks as_completed has yielded so far
    sessions      \* the result dict: the set of [name, session] items

batchVars == <<b_pc, store_names, max_workers, exact_mode, futures, yielded,
               sessions>>
batchRest == <<b_pc, store_names, max_workers, exact_mode, yielded, sessions>>

\* ZiniaoClient state (client.py)
VARIABLES
    started,   \* ZiniaoClient._started
    process,   \* the client process: "none", "running" or "exited"
    c_last,    \* the last call made on the client and how it went
    c_why,     \* history: the call that gave _started its value
    c_calls    \* calls made so far

clientVars == <<started, process, c_last, c_why, c_calls>>

\* ZiniaoClient.update_core state (client.py:182-241)
VARIABLES
    u_pc,           \* "idle" | "check" (top of the while loop) |
                    \* "sending" (inside send_request) | "done"
    max_wait_time,  \* the max_wait_time argument
    elapsed,        \* time.time() - start_time, in seconds
    polls,          \* per poll: its requestId and the time it began at
    u_result        \* how update_core ended

updateVars == <<u_pc, max_wait_time, elapsed, polls, u_result>>

\* what the actions of one component leave alone
notHttp == <<sessionVars, storeVars, batchVars, clientVars, updateVars>>
notSession == <<httpVars, storeVars, batchVars, clientVars, updateVars>>
notBatch == <<httpVars, sessionVars, clientVars, updateVars>>
notClient == <<httpVars, sessionVars, storeVars, batchVars, updateVars>>
notUpdate == <<sessionVars, storeVars, batchVars, clientVars>>

(***************************************************************************)
(* What one delivery attempt can meet: requests.post raising, or the body  *)
(* that json.loads is given.                                               *)
(*   Timeout, ConnectionError   requests.post raises them                  *)
(*   OtherException             requests.post raises anything else         *)
(*   BadJson                    the body is not JSON                       *)
(*   Null                       the body is the JSON literal null          *)
(*   FalsyValue                 JSON that is falsy in Python: [], {}, 0    *)
(*   TruthyNonDict              JSON that is no object: [1], 5, "x"        *)
(*   Dict                       an object with a statusCode (status)       *)
(*   DictNoStatus               a non-empty object without a statusCode    *)
(* status is 0 for every kind but Dict.                                    *)
(***************************************************************************)
StatusCodes == {0, AUTH_FAILED, -1}

Outcomes ==
    [kind : {"Timeout", "ConnectionError", "OtherException", "BadJson",
             "Null", "FalsyValue", "TruthyNonDict", "DictNoStatus"},
     status : {0}]
    \cup [kind : {"Dict"}, status : StatusCodes]

Outcome(k) == [kind |-> k, status |-> 0]
DictOutcome(s) == [kind |-> "Dict", status |-> s]

\* uuid.uuid4(): a value never produced before
uuid4_constant(n) == 0
uuid4(n) == n

\* result.get("statusCode") if result else None   (http_client.py:104):
\* [raises |-> .get raised AttributeError (result is truthy and no dict),
\*  present |-> the value is not None, code |-> the value]
status_code_of(o) ==
    CASE o.kind \in {"Null", "FalsyValue", "DictNoStatus"} ->
           [raises |-> FALSE, present |-> FALSE, code |-> 0]
      [] o.kind = "TruthyNonDict" ->
           [raises |-> TRUE, present |-> FALSE, code |-> 0]
      [] OTHER -> [raises |-> FALSE, present |-> TRUE, code |-> o.status]

\* the guard of every retry branch: attempt < self.max_retries
CanRetry_always(att, maxr) == TRUE
CanRetry(att, maxr) == att < maxr

\* if status_code == -10003   (http_client.py:107)
IsAuthFailure_anyFailure(code) == code # 0
IsAuthFailure(code) == code = AUTH_FAILED

\* range(self.max_retries + 1): the loop runs for attempt = 0 .. LoopBound - 1
LoopBound_noPlusOne(maxr) == maxr
LoopBound(maxr) == maxr + 1

(***************************************************************************)
(* The try block of one loop iteration (http_client.py:83-116): what it    *)
(* does with the outcome of the POST. The answer is "continue" (the null   *)
(* polling branch), "return", or the class of the exception raised.        *)
(***************************************************************************)
TryBlock(o, att, maxr, ron) ==
    CASE o.kind = "Timeout" -> "Timeout"
      [] o.kind = "ConnectionError" -> "ConnectionError"
      [] o.kind = "OtherException" -> "Exception"
      [] o.kind = "BadJson" -> "JSONDecodeError"
      [] OTHER ->
           IF o.kind = "Null" /\ ron /\ CanRetry(att, maxr)
           THEN "continue"
           ELSE LET sc == status_code_of(o) IN
                IF sc.raises THEN "AttributeError"
                ELSE IF sc.present /\ IsAuthFailure(sc.code)
                THEN "AuthenticationError"
                ELSE "return"

(***************************************************************************)
(* The except clauses (http_client.py:118-172), tried in source order.     *)
(* AuthenticationError and AttributeError are subclasses of Exception and  *)
(* of none of the three classes named before it, so the last clause        *)
(* catches them.                                                           *)
(***************************************************************************)
ExceptClause(exc, att, maxr) ==
    CASE exc = "Timeout" ->
           IF CanRetry(att, maxr) THEN "continue" ELSE "TimeoutError"
      [] exc = "ConnectionError" ->
           IF CanRetry(att, maxr) THEN "continue" ELSE "CommunicationError"
      [] exc = "JSONDecodeError" -> "CommunicationError"
      [] OTHER ->
           IF CanRetry(att, maxr) THEN "continue" ELSE "CommunicationError"

\* One iteration of the for loop: [next, slept, caught, result];
\* caught: an except clause ran, so last_exception is set
Iteration(o, att, maxr, ron) ==
    LET t == TryBlock(o, att, maxr, ron) IN
    IF t = "return"
    THEN [next |-> "done", slept |-> FALSE, caught |-> FALSE,
          result |-> [kind |-> "return", value |-> o]]
    ELSE IF t = "continue"
    THEN [next |-> "loop", slept |-> TRUE, caught |-> FALSE,
          result |-> NoResult]
    ELSE LET e == ExceptClause(t, att, maxr) IN
         IF e = "continue"
         THEN [next |-> "loop", slept |-> TRUE, caught |-> TRUE,
               result |-> NoResult]
         ELSE [next |-> "done", slept |-> FALSE, caught |-> TRUE,
               result |-> [kind |-> "raise", exc |-> e]]

\* After the loop (http_client.py:174-181): the range is used up.
AfterLoop(lastexc) ==
    IF lastexc THEN [kind |-> "raise", exc |-> "CommunicationError"]
    ELSE [kind |-> "return", value |-> Outcome("Null")]

\* json.dumps(data): the requestId one POST carries is the one in data
WireRequestId(d) == d.requestId

HttpInit ==
    /\ max_retries \in 0..MaxRetries
    /\ h_pc = "idle"
    /\ retry_on_none = FALSE
    /\ data = [requestId |-> 0]
    /\ attempt = 0
    /\ outcomes = <<>>
    /\ wire = <<>>
    /\ sleeps = 0
    /\ h_result = NoResult
    /\ uuid_next = 1
    /\ used_ids = {}
    /\ calls = 0
    /\ last_exception = FALSE

\* A caller builds the request with a new requestId and calls send_request.
SendRequest ==
    /\ h_pc \in {"idle", "done"}
    /\ calls < MaxCalls
    /\ \E ron \in BOOLEAN : retry_on_none' = ron
    /\ data' = [requestId |-> uuid4(uuid_next)]
    /\ uuid_next' = uuid_next + 1
    /\ used_ids' = used_ids \cup {wire[i] : i \in DOMAIN wire}
    /\ attempt' = 0
    /\ outcomes' = <<>>
    /\ wire' = <<>>
    /\ sleeps' = 0
    /\ last_exception' = FALSE
    /\ calls' = calls + 1
    /\ IF 0 < LoopBound(max_retries)
       THEN h_pc' = "loop" /\ h_result' = NoResult
       ELSE h_pc' = "done" /\ h_result' = AfterLoop(FALSE)
    /\ UNCHANGED <<max_retries, notHttp>>

\* One iteration of  for attempt in range(self.max_retries + 1).
Attempt ==
    /\ h_pc = "loop"
    /\ attempt < LoopBound(max_retries)
    /\ \E o \in Outcomes :
         LET it == Iteration(o, attempt, max_retries, retry_on_none)
             exhausted == it.next = "loop" /\ ~(attempt + 1 < LoopBound(max_retries))
             lastexc == last_exception \/ it.caught
         IN
         /\ outcomes' = Append(outcomes, o)
         /\ wire' = Append(wire, WireRequestId(data))
         /\ sleeps' = IF it.slept THEN sleeps + 1 ELSE sleeps
         /\ attempt' = IF it.next = "loop" THEN attempt + 1 ELSE attempt
         /\ last_exception' = lastexc
         /\ h_result' = IF exhausted THEN AfterLoop(lastexc) ELSE it.result
         /\ h_pc' = IF exhausted THEN "done" ELSE it.next
    /\ UNCHANGED <<max_retries, retry_on_none, data, uuid_next, used_ids, calls,
                   notHttp>>

HttpNext == SendRequest \/ Attempt

(***************************************************************************)
(* BrowserSession state (browser.py). One session, constructed by a        *)
(* successful open, is shared by the threads SThreads.                     *)
(***************************************************************************)
SThreads == 1..NumThreads

\* how an operation ended; got is the URL tab.get was called with, for the
\* operations that choose one ("argument", "captured", "none")
NoOp == [op |-> "none", kind |-> "none", val |-> "none", got |-> "none"]
Return(op, v) == [op |-> op, kind |-> "return", val |-> v, got |-> "none"]
Raise(op, e) == [op |-> op, kind |-> "raise", val |-> e, got |-> "none"]

\* if self._closed: return   (browser.py:206)
AlreadyClosed_never(c) == FALSE
AlreadyClosed(c) == c

\* the browser property (browser.py:76-82): "ok" or the ZiniaoError raised
BrowserProperty(c, b) ==
    IF c THEN "ZiniaoError:closed"
    ELSE IF b = "None" THEN "ZiniaoError:uninitialized"
    ELSE "ok"

\* the tabs the remote browser has; tabs[index] exists for 0 <= index < NTabs
NTabs == 1

\* get_tab(index) (browser.py:93-100): "tab" or the exception raised
get_tab(c, b, index) ==
    LET p == BrowserProperty(c, b) IN
    IF p # "ok" THEN p
    ELSE IF index = -1 THEN "tab"
    ELSE IF 0 <= index /\ index < NTabs THEN "tab"
    ELSE "IndexError"

\* url = ip_check_url or self.ip_check_url   (browser.py:117): arg tells
\* that a URL was passed, own that one was captured at construction
url_or_ownFirst(arg, own) ==
    IF own THEN "captured" ELSE IF arg THEN "argument" ELSE "none"
url_or(arg, own) ==
    IF arg THEN "argument" ELSE IF own THEN "captured" ELSE "none"

\* check_ip (browser.py:117-144). arg: an explicit URL was passed;
\* page: what the control endpoint does ("ready", "timeout", "error").
\* Every exception inside the try block is turned into False.
check_ip_propagate(c, b, ipurl, arg, page) ==
    LET url == url_or(arg, ipurl) IN
    IF url = "none" THEN Return("check_ip", "True")
    ELSE IF get_tab(c, b, -1) # "tab" THEN Raise("check_ip", get_tab(c, b, -1))
    ELSE IF page = "ready" THEN [Return("check_ip", "True") EXCEPT !.got = url]
    ELSE IF page = "error" THEN [Raise("check_ip", "Exception") EXCEPT !.got = url]
    ELSE [Return("check_ip", "False") EXCEPT !.got = url]
check_ip(c, b, ipurl, arg, page) ==
    LET url == url_or(arg, ipurl) IN
    IF url = "none" THEN Return("check_ip", "True")
    ELSE IF get_tab(c, b, -1) # "tab" THEN Return("check_ip", "False")
    ELSE IF page = "ready" THEN [Return("check_ip", "True") EXCEPT !.got = url]
    ELSE [Return("check_ip", "False") EXCEPT !.got = url]

\* open_launcher_page (browser.py:161-185): no URL is a ZiniaoError; every
\* exception inside the try block is re-raised as a ZiniaoError that quotes it
open_launcher_page(c, b, launcher, arg, page) ==
    IF ~(arg \/ launcher) THEN Raise("open_launcher_page", "ZiniaoError:no_url")
    ELSE LET tab == get_tab(c, b, -1) IN
         IF tab # "tab"
         THEN Raise("open_launcher_page", "ZiniaoError:failed:" \o tab)
         ELSE IF page = "error"
         THEN Raise("open_launcher_page", "ZiniaoError:failed:Exception")
         ELSE Return("open_launcher_page", "None")

\* navigate (browser.py:194-199): nothing is caught
navigate(c, b, page) ==
    LET tab == get_tab(c, b, -1) IN
    IF tab # "tab" THEN Raise("navigate", tab)
    ELSE IF page = "error" THEN Raise("navigate", "Exception")
    ELSE Return("navigate", "None")

PageBehaviours == {"ready", "timeout", "error"}

SessionInit ==
    /\ closed = FALSE
    /\ browser = "Chromium"
    /\ close_callback \in BOOLEAN
    /\ ip_check_url \in BOOLEAN
    /\ launcher_page \in BOOLEAN
    /\ teardown = 0
    /\ callback_error = FALSE
    /\ s_pc = [t \in SThreads |-> "idle"]
    /\ s_res = [t \in SThreads |-> NoOp]
    /\ close_calls = 0
    /\ overlapped = FALSE

sessionConfig == <<close_callback, ip_check_url, launcher_page>>

\* what the callback ends with. open_store installs close_store
\* (store.py:226), which returns on statusCode 0, raises
\* StoreOperationError on None or another statusCode (store.py:394-416)
\* and lets the exceptions of send_request through
CallbackOutcomes ==
    {"returned", "StoreOperationError", "CommunicationError", "TimeoutError"}

\* try: self.close_callback(...) except Exception   (browser.py:214-218):
\* what leaves the try statement, "none" when nothing does
CallbackHandler_propagate(outcome) ==
    IF outcome = "returned" THEN "none" ELSE outcome
CallbackHandler(outcome) == "none"

\* self._closed = True   (browser.py:220)
MarkClosed_toggle(c) == ~c
MarkClosed(c) == TRUE

\* close(), first statement: the check of _closed (browser.py:206-208)
CloseEnter(t) ==
    /\ s_pc[t] = "idle"
    /\ close_calls < MaxCloses
    /\ close_calls' = close_calls + 1
    /\ overlapped' = (overlapped \/ \E u \in SThreads \ {t} : s_pc[u] # "idle")
    /\ IF AlreadyClosed(closed)
       THEN /\ s_res' = [s_res EXCEPT ![t] = Return("close", "noop")]
            /\ UNCHANGED s_pc
       ELSE /\ s_pc' = [s_pc EXCEPT ![t] = "callback"]
            /\ s_res' = [s_res EXCEPT ![t] = NoOp]
    /\ UNCHANGED <<closed, browser, teardown, callback_error, sessionConfig,
                   notSession>>

\* close(), the callback (browser.py:213-218): it may raise; the exception
\* is logged and dropped
CloseCallback(t) ==
    /\ s_pc[t] = "callback"
    /\ \E o \in IF close_callback THEN CallbackOutcomes ELSE {"returned"} :
         /\ callback_error' = (callback_error \/ o # "returned")
         /\ IF CallbackHandler(o) = "none"
            THEN /\ s_pc' = [s_pc EXCEPT ![t] = "mark"]
                 /\ UNCHANGED s_res
            ELSE /\ s_pc' = [s_pc EXCEPT ![t] = "idle"]
                 /\ s_res' = [s_res EXCEPT ![t] = Raise("close", CallbackHandler(o))]
    /\ teardown' = IF close_callback THEN teardown + 1 ELSE teardown
    /\ UNCHANGED <<closed, browser, close_calls, overlapped, sessionConfig,
                   notSession>>

\* close(): self._closed = True   (browser.py:220)
CloseMark(t) ==
    /\ s_pc[t] = "mark"
    /\ closed' = MarkClosed(closed)
    /\ s_pc' = [s_pc EXCEPT ![t] = "clear"]
    /\ UNCHANGED <<browser, teardown, callback_error, s_res, close_calls,
                   overlapped, sessionConfig, notSession>>

\* close(): self._browser = None   (browser.py:221), and the return
CloseClear(t) ==
    /\ s_pc[t] = "clear"
    /\ browser' = "None"
    /\ s_pc' = [s_pc EXCEPT ![t] = "idle"]
    /\ s_res' = [s_res EXCEPT ![t] = Return("close", "closed")]
    /\ UNCHANGED <<closed, teardown, callback_error, close_calls, overlapped,
                   sessionConfig, notSession>>

\* Any operation other than close(), run by a thread that is not inside close()
Finish(t, r) ==
    /\ s_pc[t] = "idle"
    /\ s_res' = [s_res EXCEPT ![t] = r]
    /\ UNCHANGED <<closed, browser, teardown, callback_error, s_pc, close_calls,
                   overlapped, sessionConfig, notSession>>

Browser(t) ==
    LET p == BrowserProperty(closed, browser) IN
    Finish(t, IF p = "ok" THEN Return("browser", "Chromium") ELSE Raise("browser", p))

GetTab(t) ==
    \E index \in {-1, 0, 1} :
        LET r == get_tab(closed, browser, index) IN
        Finish(t, IF r = "tab" THEN Return("get_tab", "tab") ELSE Raise("get_tab", r))

CheckIp(t) ==
    \E arg \in BOOLEAN, page \in PageBehaviours :
        LET r == check_ip(closed, browser, ip_check_url, arg, page) IN
        Finish(t, IF r.kind = "return" THEN Return("check_ip", r.val)
                  ELSE Raise("check_ip", r.val))

OpenLauncherPage(t) ==
    \E arg \in BOOLEAN, page \in PageBehaviours :
        Finish(t, open_launcher_page(closed, browser, launcher_page, arg, page))

Navigate(t) ==
    \E page \in PageBehaviours : Finish(t, navigate(closed, browser, page))

IsClosed(t) ==
    Finish(t, Return("is_closed", IF closed THEN "True" ELSE "False"))

SessionNext ==
    \E t \in SThreads :
        \/ CloseEnter(t)
        \/ CloseCallback(t)
        \/ CloseMark(t)
        \/ CloseClear(t)
        \/ Browser(t)
        \/ GetTab(t)
        \/ CheckIp(t)
        \/ OpenLauncherPage(t)
        \/ Navigate(t)
        \/ IsClosed(t)

(***************************************************************************)
(* StoreManager (store.py). A store name is a sequence of characters, so   *)
(* that lower-casing and substring search are computed, not assumed.       *)
(***************************************************************************)
Threads == {1, 2}

\* str.lower() on one character of the alphabet the model uses
LowerChar(c) == CASE c = "A" -> "a" [] c = "B" -> "b" [] c = "X" -> "x" [] OTHER -> c

lower(s) == [i \in DOMAIN s |-> LowerChar(s[i])]

\* pattern in text
IsSubstring(pattern, text) ==
    \E i \in 0..(Len(text) - Len(pattern)) :
        SubSeq(text, i + 1, i + Len(pattern)) = pattern

\* utils.fuzzy_match with case_sensitive = False
fuzzy_match(text, pattern) == IsSubstring(lower(pattern), lower(text))

\* utils.exact_match with case_sensitive = False
exact_match_asFuzzy(text, pattern) == IsSubstring(lower(pattern), lower(text))
exact_match(text, pattern) == lower(text) = lower(pattern)

\* Store descriptors of the remote listing; browserOauth "" stands for a
\* descriptor without a usable browserOauth. Storeab has the name of StoreAb
\* in lower case and with a trailing space; StoreAbTwin has the same name as
\* StoreAb.
Store(oauth, name) == [browserOauth |-> oauth, browserName |-> name]
StoreAb == Store("oa1", <<"A", "b">>)
Storeab == Store("", <<"a", "b", " ">>)
StoreAbTwin == Store("oa3", <<"A", "b">>)

\* the listings the remote side may answer a getBrowserList request with
RemoteListings == { <<StoreAb, Storeab>>, <<StoreAbTwin, StoreAb>>, <<>> }

\* the names callers ask for
Queries == { <<"a", "b">>, <<"a", "b", " ">> }

\* the identifiers callers open or close directly
Idents == {"oa1", "77"}

\* what HttpClient.send_request hands to its caller: an exception, None, or
\* a response dict (status, message and the action's payload)
NoListing == <<>>
Response(kind, status, message, listing, oauth) ==
    [kind |-> kind, status |-> status, message |-> message, listing |-> listing,
     oauth |-> oauth]
TransportErrors ==
    { Response(k, 0, "", NoListing, "") :
        k \in {"CommunicationError", "TimeoutError"} }
NoneResponse == Response("None", 0, "", NoListing, "")
FailResponses ==
    { Response("dict", -1, "boom", NoListing, ""),
      Response("dict", -2, "", NoListing, "") }
ListingResponses ==
    TransportErrors \cup {NoneResponse} \cup FailResponses
    \cup { Response("dict", 0, "", l, "") : l \in RemoteListings }
\* a successful startBrowser response may omit browserOauth (oauth "")
OpenResponses ==
    TransportErrors \cup {NoneResponse} \cup FailResponses
    \cup { Response("dict", 0, "", NoListing, o) : o \in {"", "oa3"} }
CloseResponses ==
    TransportErrors \cup {NoneResponse} \cup FailResponses
    \cup { Response("dict", 0, "", NoListing, "") }

\* if status_code == 0   (store.py:86, 204, 403), on a response dict
StatusOk_any(r) == TRUE
StatusOk(r) == r.status = 0

\* result.get("message", "未知错误")
MessageOf(r) == IF r.message = "" THEN "unknown" ELSE r.message

\* How a call ended. One record shape serves every operation:
\*   exc, code, message   the exception raised and what it carries
\*   ref                  the list returned by get_store_list (0: None)
\*   items                the list returned by find_stores_by_name, or the
\*                        names a MultipleStoresFoundError carries
\*   sid, sname           store_id and store_name of the BrowserSession
NoRes ==
    [kind |-> "none", exc |-> "", code |-> 0, message |-> "", ref |-> 0,
     items |-> <<>>, sid |-> "", sname |-> <<>>]
Returns == [NoRes EXCEPT !.kind = "return"]
Raises(e) == [NoRes EXCEPT !.kind = "raise", !.exc = e]

\* StoreOperationError(operation, store_id, status_code, message)
StoreOperationError_noCode(ident, r) ==
    [Raises("StoreOperationError") EXCEPT !.sid = ident]
StoreOperationError(ident, r) ==
    IF r.kind = "None"
    THEN [Raises("StoreOperationError") EXCEPT !.sid = ident,
                                               !.message = "returned None"]
    ELSE [Raises("StoreOperationError") EXCEPT !.sid = ident, !.code = r.status,
                                               !.message = MessageOf(r)]

NoOpCall == [name |-> "none", q |-> <<>>, exact |-> FALSE, uc |-> FALSE, ident |-> ""]
Call(name, q, exact, uc, ident) ==
    [name |-> name, q |-> q, exact |-> exact, uc |-> uc, ident |-> ident]

\* The characters of the identifiers the model uses
Chars(id) ==
    CASE id = "oa1" -> <<"o", "a", "1">> [] id = "oa2" -> <<"o", "a", "2">>
      [] id = "oa3" -> <<"o", "a", "3">> [] id = "77" -> <<"7", "7">>
      [] OTHER -> <<>>

Digits == {"0", "1", "2", "3", "4", "5", "6", "7", "8", "9"}

\* str.isdigit(): every character is a digit and there is at least one
isdigit_never(s) == FALSE
isdigit(s) == s # <<>> /\ \A i \in DOMAIN s : s[i] \in Digits

\* The identifier part of a request: the identifier fields data carries and
\* the value they hold. startBrowser (store.py:180-183) chooses the field by
\* isdigit; stopBrowser (store.py:382-387) always writes browserOauth.
NoRequest == [action |-> "none", fields |-> {}, value |-> ""]
StartBrowser(id) ==
    [action |-> "startBrowser",
     fields |-> IF isdigit(Chars(id)) THEN {"browserId"} ELSE {"browserOauth"},
     value |-> id]
StopBrowser(id) ==
    [action |-> "stopBrowser", fields |-> {"browserOauth"}, value |-> id]

\* what open_store met after a successful response: whether Chromium(port)
\* connected, and whether the response carried ipDetectionPage, launcherPage
NoEnv == [connected |-> FALSE, ipurl |-> FALSE, launcher |-> FALSE]

\* the locals of an idle thread. seen and snap are history: the elements
\* the for loop of find_stores_by_name has read, and the content of
\* store_list when get_store_list returned it; c_read is the value of the
\* cache field read by the test of get_store_list; resp is the last
\* response; req is the last open or close request; built tells that
\* open_store went on to construct a BrowserSession, env what it met then,
\* and log lists the session methods it called, with what they returned
IdleThread ==
    [pc |-> "idle", op |-> NoOpCall, store_list |-> 0, idx |-> 0,
     matched |-> <<>>, seen |-> <<>>, snap |-> <<>>, ident |-> "",
     c_read |-> 0, resp |-> NoneResponse, sname |-> <<>>, res |-> NoRes,
     req |-> NoRequest, built |-> FALSE, log |-> <<>>, env |-> NoEnv,
     sent |-> [list |-> 0, open |-> 0, close |-> 0], task |-> 0]

\* a thread enters an operation: the locals are fresh, the task is kept
Enter(l, call, pc) ==
    [IdleThread EXCEPT !.pc = pc, !.op = call, !.task = l.task]

\* a thread leaves its operation with result r
Leave(l, r) == [l EXCEPT !.pc = "idle", !.res = r]

\* a future: its state, and once done the session of the (name, session)
\* pair it holds (0 for None; a session is known by the task that built it)
Queued == [state |-> "queued", session |-> 0]
Running == [state |-> "running", session |-> 0]

\* open_single_store (store.py:336-347): the pair (name, session) of a task
\* that returned, the pair (name, None) of a task that raised any Exception
open_single_store_reraise(i, r) ==
    IF r.kind = "return" THEN [state |-> "done", session |-> i]
    ELSE [state |-> "raised", session |-> 0]
open_single_store(i, r) ==
    IF r.kind = "return" THEN [state |-> "done", session |-> i]
    ELSE [state |-> "done", session |-> 0]

\* Thread t goes on with locals l. A pool thread whose open_store_by_name
\* has ended returns from open_single_store, which completes its future,
\* and is free for the next task.
Set(t, l) ==
    IF l.pc = "idle" /\ l.task # 0
    THEN /\ th' = [th EXCEPT ![t] = IdleThread]
         /\ futures' = [futures EXCEPT ![l.task] = open_single_store(l.task, l.res)]
    ELSE /\ th' = [th EXCEPT ![t] = l]
         /\ UNCHANGED futures

\* if use_cache and self._store_list_cache is not None   (store.py:62)
CacheUsable_truthy(uc, c) == uc /\ c # 0 /\ lists[c] # <<>>
CacheUsable(uc, c) == uc /\ c # 0

\* self._store_list_cache = browser_list   (store.py:91): the field is bound
\* to the list object the response was parsed into; no list is changed
UpdateCache_inPlace(ls, c, listing) ==
    IF c = 0 THEN [lists |-> Append(ls, listing), cache |-> Len(ls) + 1]
    ELSE [lists |-> [ls EXCEPT ![c] = listing], cache |-> c]
UpdateCache(ls, c, listing) ==
    [lists |-> Append(ls, listing), cache |-> Len(ls) + 1]

\* get_store_list hands value v (a list reference, 0 for None) to its caller:
\* the caller of the method itself, or find_stores_by_name (store.py:125-130),
\* whose for loop raises TypeError on None
GotStoreList(l, v) ==
    IF l.op.name = "get_store_list" THEN Leave(l, [Returns EXCEPT !.ref = v])
    ELSE IF v = 0 THEN Leave(l, Raises("TypeError"))
    ELSE [l EXCEPT !.pc = "iter", !.store_list = v, !.idx = 1,
                   !.snap = lists[v]]

\* get_store_list, the cache test (store.py:62) and, on a miss, the request
\* (store.py:66-75)
GslCheck(t) ==
    LET l == th[t] IN
    /\ l.pc = "gsl"
    /\ IF CacheUsable(l.op.uc, cache)
       THEN /\ Set(t, [l EXCEPT !.pc = "gsl_hit", !.c_read = cache])
            /\ UNCHANGED n_listing
       ELSE /\ Set(t, [l EXCEPT !.pc = "listing", !.c_read = cache,
                                !.sent.list = @ + 1])
            /\ n_listing' = n_listing + 1
    /\ UNCHANGED <<cache, lists, n_open, batchRest, notBatch>>

\* get_store_list, return self._store_list_cache (store.py:64): the field is
\* read a second time
GslHit(t) ==
    LET l == th[t] IN
    /\ l.pc = "gsl_hit"
    /\ Set(t, GotStoreList(l, cache))
    /\ UNCHANGED <<cache, lists, n_listing, n_open, batchRest, notBatch>>

\* get_store_list, after send_request (store.py:75-102)
ListingResponse(t) ==
    LET l == th[t] IN
    /\ l.pc = "listing"
    /\ \E r \in ListingResponses :
         LET lr == [l EXCEPT !.resp = r] IN
         IF r.kind \in {"CommunicationError", "TimeoutError"}
         THEN Set(t, Leave(lr, Raises(r.kind))) /\ UNCHANGED <<cache, lists>>
         ELSE IF r.kind = "None" \/ ~StatusOk(r)
         THEN Set(t, Leave(lr, StoreOperationError("all", r)))
              /\ UNCHANGED <<cache, lists>>
         ELSE LET u == UpdateCache(lists, cache, r.listing) IN
              /\ lists' = u.lists
              /\ cache' = u.cache
              /\ Set(t, IF l.op.name = "get_store_list"
                         THEN Leave(lr, [Returns EXCEPT !.ref = u.cache])
                         ELSE [lr EXCEPT !.pc = "iter", !.store_list = u.cache,
                                         !.idx = 1, !.snap = r.listing])
    /\ UNCHANGED <<n_listing, n_open, batchRest, notBatch>>

\* the test of the loop body of find_stores_by_name (store.py:131-138)
Matches(store, l) ==
    IF l.op.exact THEN exact_match(store.browserName, l.op.q)
    ELSE fuzzy_match(store.browserName, l.op.q)

\* [s.get("browserName", "") for s in matched_stores]   (store.py:290)
NamesOf_reversed(stores) ==
    [i \in DOMAIN stores |-> stores[Len(stores) + 1 - i].browserName]
NamesOf(stores) == [i \in DOMAIN stores |-> stores[i].browserName]

\* if not store_oauth   (store.py:301): None and "" are falsy
Falsy_never(oauth) == FALSE
Falsy(oauth) == oauth = ""

\* open_store_by_name after the search (store.py:285-308): the exception it
\* raises, or NoRes when it goes on to open_store
AfterSearch(l) ==
    IF Len(l.matched) = 0
    THEN [Raises("StoreNotFoundError") EXCEPT !.sname = l.op.q]
    ELSE IF Len(l.matched) > 1
    THEN [Raises("MultipleStoresFoundError") EXCEPT
              !.sname = l.op.q, !.code = Len(l.matched),
              !.items = NamesOf(l.matched)]
    ELSE IF Falsy(l.matched[1].browserOauth)
    THEN [Raises("StoreOperationError") EXCEPT !.sname = l.op.q,
                                               !.message = "empty oauth"]
    ELSE NoRes

\* One turn of  for store in store_list  (store.py:130-138); when the list
\* is used up, the rest of find_stores_by_name (store.py:140-142) and, for
\* open_store_by_name, the checks and the open request (store.py:285-308,
\* 161-193)
Iter(t) ==
    LET l == th[t]
        list == lists[l.store_list]
    IN
    /\ l.pc = "iter"
    /\ IF l.idx <= Len(list)
       THEN /\ Set(t, [l EXCEPT
                         !.idx = @ + 1,
                         !.seen = Append(@, list[l.idx]),
                         !.matched = IF Matches(list[l.idx], l)
                                     THEN Append(@, list[l.idx]) ELSE @])
            /\ UNCHANGED n_open
       ELSE IF l.op.name = "find_stores_by_name"
       THEN /\ Set(t, Leave(l, [Returns EXCEPT !.items = l.matched]))
            /\ UNCHANGED n_open
       ELSE IF AfterSearch(l) # NoRes
       THEN /\ Set(t, Leave(l, AfterSearch(l)))
            /\ UNCHANGED n_open
       ELSE /\ Set(t, [l EXCEPT !.pc = "opening",
                                !.ident = l.matched[1].browserOauth,
                                !.req = StartBrowser(l.matched[1].browserOauth),
                                !.sent.open = @ + 1])
            /\ n_open' = n_open + 1
    /\ UNCHANGED <<cache, lists, n_listing, batchRest, notBatch>>

\* open_store after send_request (store.py:193-209, 243-254)
OpenResponse(t) ==
    LET l == th[t] IN
    /\ l.pc = "opening"
    /\ \E r \in OpenResponses :
         LET lr == [l EXCEPT !.resp = r] IN
         IF r.kind \in {"CommunicationError", "TimeoutError"}
         THEN Set(t, Leave(lr, Raises(r.kind)))
         ELSE IF r.kind = "None" \/ ~StatusOk(r)
         THEN Set(t, Leave(lr, StoreOperationError(l.ident, r)))
         ELSE Set(t, [lr EXCEPT !.pc = "name"])
    /\ UNCHANGED <<cache, lists, n_listing, n_open, batchRest, notBatch>>

\* result.get("browserOauth", store_identifier)   (store.py:207)
BrowserOauth(l) == IF l.resp.oauth = "" THEN l.ident ELSE l.resp.oauth

\* the name a store id travels under when the cache does not know it
IdAsName(id) ==
    CASE id = "oa1" -> <<"o", "1">> [] id = "oa2" -> <<"o", "2">>
      [] id = "oa3" -> <<"o", "3">> [] OTHER -> <<"7", "7">>

\* the for loop of _get_store_name (store.py:428-432) over list ls
LookupName(ls, oauth) ==
    IF \E i \in DOMAIN ls : ls[i].browserOauth = oauth
    THEN LET i == CHOOSE i \in DOMAIN ls :
                    /\ ls[i].browserOauth = oauth
                    /\ \A j \in DOMAIN ls : ls[j].browserOauth = oauth => i <= j
         IN ls[i].browserName
    ELSE IdAsName(oauth)

\* _get_store_name, if self._store_list_cache (store.py:427): None and the
\* empty list are both falsy
NameCheck(t) ==
    LET l == th[t] IN
    /\ l.pc = "name"
    /\ IF cache # 0 /\ lists[cache] # <<>>
       THEN Set(t, [l EXCEPT !.pc = "name_loop"])
       ELSE Set(t, [l EXCEPT !.pc = "session", !.sname = IdAsName(BrowserOauth(l))])
    /\ UNCHANGED <<cache, lists, n_listing, n_open, batchRest, notBatch>>

\* _get_store_name, for store in self._store_list_cache (store.py:428): the
\* field is read again; None raises TypeError
NameLoop(t) ==
    LET l == th[t] IN
    /\ l.pc = "name_loop"
    /\ IF cache = 0
       THEN Set(t, Leave(l, Raises("TypeError")))
       ELSE Set(t, [l EXCEPT !.pc = "session",
                             !.sname = LookupName(lists[cache], BrowserOauth(l))])
    /\ UNCHANGED <<cache, lists, n_listing, n_open, batchRest, notBatch>>

\* open_store from the BrowserSession constructor to the return
\* (store.py:219-241). connect: whether Chromium(port) connects
\* (browser.py:58-64); ip, page: what check_ip and open_launcher_page meet.
\* ipurl, launcher: whether the response carries ipDetectionPage and
\* launcherPage (store.py:208-209); they are used nowhere else. log lists
\* the session methods open_store called, in order, with how each ended.
\* if launcher_page   (store.py:236): ip_ok is not looked at
ShouldNavigate_onlyIfReady(launcher, ip_ok) == launcher /\ ip_ok = "True"
ShouldNavigate(launcher, ip_ok) == launcher

SessionStep(l, connect, ipurl, launcher, ip, page) ==
    IF ~connect THEN Leave(l, Raises("ZiniaoError"))
    ELSE
      LET ipres == IF ipurl THEN check_ip(FALSE, "Chromium", TRUE, FALSE, ip)
                   ELSE Return("check_ip", "skipped")
          l1 == IF ipurl
                THEN [l EXCEPT !.log = Append(@, "check_ip:" \o ipres.val)]
                ELSE l
      IN
      IF ipres.kind = "raise" THEN Leave(l1, Raises(ipres.val))
      ELSE IF ~ShouldNavigate(launcher, ipres.val)
      THEN Leave(l1, [Returns EXCEPT !.sid = BrowserOauth(l), !.sname = l.sname])
      ELSE
        LET lp == open_launcher_page(FALSE, "Chromium", TRUE, FALSE, page) IN
        IF lp.kind = "raise"
        THEN Leave([l1 EXCEPT !.log = Append(@, "open_launcher_page:raised")],
                   Raises("ZiniaoError"))
        ELSE Leave([l1 EXCEPT !.log = Append(@, "open_launcher_page")],
                   [Returns EXCEPT !.sid = BrowserOauth(l), !.sname = l.sname])

OpenSession(t) ==
    LET l == th[t] IN
    /\ l.pc = "session"
    /\ \E connect \in BOOLEAN :
       \E ipurl \in IF connect THEN BOOLEAN ELSE {FALSE},
          launcher \in IF connect THEN BOOLEAN ELSE {FALSE} :
       \E ip \in IF ipurl THEN PageBehaviours ELSE {"ready"},
          page \in IF launcher THEN PageBehaviours ELSE {"ready"} :
         Set(t, SessionStep([l EXCEPT !.built = TRUE,
                                      !.env = [connected |-> connect,
                                               ipurl |-> ipurl,
                                               launcher |-> launcher]],
                            connect, ipurl, launcher, ip, page))
    /\ UNCHANGED <<cache, lists, n_listing, n_open, batchRest, notBatch>>

\* close_store after send_request (store.py:392-416)
CloseResponse(t) ==
    LET l == th[t] IN
    /\ l.pc = "closing"
    /\ \E r \in CloseResponses :
         LET lr == [l EXCEPT !.resp = r] IN
         IF r.kind \in {"CommunicationError", "TimeoutError"}
         THEN Set(t, Leave(lr, Raises(r.kind)))
         ELSE IF r.kind = "None" \/ ~StatusOk(r)
         THEN Set(t, Leave(lr, StoreOperationError(l.ident, r)))
         ELSE Set(t, Leave(lr, Returns))
    /\ UNCHANGED <<cache, lists, n_listing, n_open, batchRest, notBatch>>

(***************************************************************************)
(* Callers: a thread that is idle calls a public method of StoreManager.   *)
(***************************************************************************)
CallGetStoreList(t) ==
    /\ th[t].pc = "idle"
    /\ n_listing < MaxListings
    /\ \E uc \in BOOLEAN :
         Set(t, Enter(th[t], Call("get_store_list", <<>>, FALSE, uc, ""), "gsl"))
    /\ UNCHANGED <<cache, lists, n_listing, n_open, batchRest, notBatch>>

CallFindStoresByName(t) ==
    /\ th[t].pc = "idle"
    /\ n_listing < MaxListings
    /\ \E q \in Queries, exact \in BOOLEAN, uc \in BOOLEAN :
         Set(t, Enter(th[t], Call("find_stores_by_name", q, exact, uc, ""), "gsl"))
    /\ UNCHANGED <<cache, lists, n_listing, n_open, batchRest, notBatch>>

\* open_store_by_name searches with the default use_cache = True
\* (store.py:280-283)
OpenStoreByNameCall_noCache(q, exact) ==
    Call("open_store_by_name", q, exact, FALSE, "")
OpenStoreByNameCall(q, exact) == Call("open_store_by_name", q, exact, TRUE, "")

CallOpenStoreByName(t) ==
    /\ th[t].pc = "idle"
    /\ n_listing < MaxListings
    /\ n_open < MaxOpens
    /\ \E q \in Queries, exact \in BOOLEAN :
         Set(t, Enter(th[t], OpenStoreByNameCall(q, exact), "gsl"))
    /\ UNCHANGED <<cache, lists, n_listing, n_open, batchRest, notBatch>>

\* open_store up to send_request (store.py:161-193)
CallOpenStore(t) ==
    /\ th[t].pc = "idle"
    /\ n_open < MaxOpens
    /\ \E id \in Idents :
         Set(t, [Enter(th[t], Call("open_store", <<>>, FALSE, FALSE, id), "opening")
                   EXCEPT !.ident = id, !.req = StartBrowser(id),
                          !.sent.open = 1])
    /\ n_open' = n_open + 1
    /\ UNCHANGED <<cache, lists, n_listing, batchRest, notBatch>>

\* close_store up to send_request (store.py:381-392)
CallCloseStore(t) ==
    /\ th[t].pc = "idle"
    /\ \E id \in Idents :
         Set(t, [Enter(th[t], Call("close_store", <<>>, FALSE, FALSE, id), "closing")
                   EXCEPT !.ident = id, !.req = StopBrowser(id),
                          !.sent.close = 1])
    /\ UNCHANGED <<cache, lists, n_listing, n_open, batchRest, notBatch>>

\* clear_cache (store.py:434-437)
ClearCache(t) ==
    /\ th[t].pc = "idle"
    /\ cache # 0
    /\ cache' = 0
    /\ Set(t, Leave(Enter(th[t], Call("clear_cache", <<>>, FALSE, FALSE, ""), "idle"),
                    Returns))
    /\ UNCHANGED <<lists, n_listing, n_open, batchRest, notBatch>>

\* a step inside any StoreManager method
Step(t) ==
    \/ GslCheck(t)
    \/ GslHit(t)
    \/ ListingResponse(t)
    \/ Iter(t)
    \/ OpenResponse(t)
    \/ NameCheck(t)
    \/ NameLoop(t)
    \/ OpenSession(t)

\* Thread 1 calls any method. The other threads call only the methods that
\* write the cache, get_store_list and clear_cache: the remaining methods
\* write nothing that another thread reads, so leaving them out removes no
\* interference.
Callers == {1}

AnyCall(t) ==
    \/ CallFindStoresByName(t)
    \/ CallOpenStoreByName(t)
    \/ CallOpenStore(t)
    \/ CallCloseStore(t)

CacheCall(t) ==
    \/ CallGetStoreList(t)
    \/ ClearCache(t)

StoreNext ==
    \/ \E t \in Callers : AnyCall(t)
    \/ \E t \in Threads : CacheCall(t) \/ Step(t) \/ CloseResponse(t)

\* the same methods called by one thread only
StoreSeqNext ==
    \E t \in Callers : AnyCall(t) \/ CacheCall(t) \/ Step(t) \/ CloseResponse(t)

(***************************************************************************)
(* open_stores_by_names (store.py:310-370): a ThreadPoolExecutor runs one  *)
(* open_single_store task per name; the caller collects the futures as     *)
(* they complete.                                                          *)
(***************************************************************************)
\* the name lists callers pass
NameLists ==
    UNION { [1..n -> Queries] : n \in 0..MaxNames }

\* the threads of ThreadPoolExecutor(max_workers=max_workers)
PoolThreads_unbounded(w) == Threads
PoolThreads(w) == {t \in Threads : t <= w}

\* if session is not None   (store.py:360)
SessionIsNotNone_always(f) == TRUE
SessionIsNotNone(f) == f.session # 0

\* sessions[name] = session
DictSet(d, k, v) ==
    {p \in d : p.name # k} \cup {[name |-> k, session |-> v]}

Keys(d) == {p.name : p \in d}

\* ThreadPoolExecutor(max_workers=max_workers) (store.py:350) raises
\* ValueError("max_workers must be greater than 0")
PoolSetUpFails_belowTwo(w) == w <= 1
PoolSetUpFails(w) == w <= 0

\* The call: ThreadPoolExecutor(max_workers) raises ValueError unless
\* max_workers > 0; otherwise every name is submitted (store.py:350-355)
BatchCall ==
    /\ b_pc = "idle"
    /\ \E names \in NameLists, w \in 0..MaxWorkers, exact \in BOOLEAN :
         /\ store_names' = names
         /\ max_workers' = w
         /\ exact_mode' = exact
         /\ IF PoolSetUpFails(w)
            THEN /\ b_pc' = "raised"
                 /\ futures' = <<>>
            ELSE /\ b_pc' = "collect"
                 /\ futures' = [i \in DOMAIN names |-> Queued]
    /\ yielded' = {}
    /\ sessions' = {}
    /\ UNCHANGED <<storeVars, notBatch>>

\* A pool thread takes the oldest queued task and enters open_single_store
TaskStart(t) ==
    /\ b_pc = "collect"
    /\ t \in PoolThreads(max_workers)
    /\ th[t].pc = "idle" /\ th[t].task = 0
    /\ \E i \in DOMAIN futures :
         /\ futures[i].state = "queued"
         /\ \A j \in DOMAIN futures : futures[j].state = "queued" => i <= j
         /\ futures' = [futures EXCEPT ![i] = Running]
         /\ th' = [th EXCEPT ![t] =
                     [Enter(th[t], OpenStoreByNameCall(store_names[i], exact_mode),
                            "gsl") EXCEPT !.task = i]]
    /\ UNCHANGED <<cache, lists, n_listing, n_open, batchRest, notBatch>>

\* One turn of  for future in as_completed(futures)  (store.py:358-364);
\* future.result() raises what the task raised
Collect ==
    /\ b_pc = "collect"
    /\ \E i \in DOMAIN futures \ yielded :
         /\ futures[i].state \in {"done", "raised"}
         /\ yielded' = yielded \cup {i}
         /\ IF futures[i].state = "raised"
            THEN b_pc' = "raised" /\ UNCHANGED sessions
            ELSE /\ UNCHANGED b_pc
                 /\ sessions' =
                      IF SessionIsNotNone(futures[i])
                      THEN DictSet(sessions, store_names[i], futures[i].session)
                      ELSE sessions
    /\ UNCHANGED <<storeVars, store_names, max_workers, exact_mode, futures,
                   notBatch>>

\* for future in as_completed(futures) ends when every future submitted
\* has been yielded, and a future is yielded once it is done
\* (store.py:358); the with block then shuts the executor down
AsCompletedUsedUp_anyTime(y, f) == TRUE
AsCompletedUsedUp(y, f) == y = DOMAIN f

\* as_completed is used up, the with block ends, sessions is returned
BatchReturn ==
    /\ b_pc = "collect"
    /\ AsCompletedUsedUp(yielded, futures)
    /\ b_pc' = "returned"
    /\ UNCHANGED <<storeVars, store_names, max_workers, exact_mode, futures,
                   yielded, sessions, notBatch>>

BatchNext ==
    \/ BatchCall
    \/ BatchReturn
    \/ Collect
    \/ \E t \in Threads : TaskStart(t) \/ Step(t)

\* StoreManager.__init__ (store.py:43-45)
StoreInit ==
    /\ cache = 0
    /\ lists = <<>>
    /\ th = [t \in Threads |-> IdleThread]
    /\ n_listing = 0
    /\ n_open = 0

(***************************************************************************)
(* ZiniaoClient (client.py): start, stop and the methods that are handed   *)
(* to the StoreManager once the client is started. What the StoreManager   *)
(* does with a call is modelled above; here a delegated call is the        *)
(* requests it sends and the way it ends.                                  *)
(***************************************************************************)
\* the options open_store reads and their defaults (store.py:164-176)
OptionDefaults ==
    [isWaitPluginUpdate |-> 0, isHeadless |-> 0, isWebDriverReadOnlyMode |-> 0,
     cookieTypeLoad |-> 0, cookieTypeSave |-> 0, runMode |-> "1",
     isLoadUserPlugin |-> FALSE, pluginIdType |-> 1, privacyMode |-> 0]

\* a value other than the default, for each option (types.py:121-133)
Supplied ==
    [isWaitPluginUpdate |-> 1, isHeadless |-> 1, isWebDriverReadOnlyMode |-> 1,
     cookieTypeLoad |-> 1, cookieTypeSave |-> 1, runMode |-> "2",
     isLoadUserPlugin |-> TRUE, pluginIdType |-> 2, privacyMode |-> 1]

\* the option dicts callers want to open with
Wants ==
    { [k \in keys |-> Supplied[k]] :
        keys \in { {}, {"isLoadUserPlugin"}, {"isHeadless", "runMode"},
                   DOMAIN OptionDefaults } }

\* The **options a method receives. style "keywords": the options are
\* passed as keyword arguments, open_store(id, isHeadless=1); style
\* "options": the dict is passed as one keyword argument named options,
\* open_store_by_name(name, options={...}) (examples/basic_usage.py:108-111)
Kwargs(style, want) ==
    IF style = "keywords" THEN want ELSE [k \in {"options"} |-> want]

\* the option part of data in open_store: options.get(k, default)
\* (store.py:164-176)
StartBrowserOptions(options) ==
    [k \in DOMAIN OptionDefaults |->
        IF k \in DOMAIN options THEN options[k] ELSE OptionDefaults[k]]

\* a call of the client: whether _started held when it began, how it ended,
\* what it did in order (requests sent, sleeps, process_manager calls), and
\* for the open methods the options wanted, the way they were passed and
\* the option part of the startBrowser request
NoClientCall ==
    [op |-> "none", was_started |-> FALSE, kind |-> "none", exc |-> "",
     events |-> <<>>, want |-> <<>>, style |-> "none", request |-> <<>>]

\* if not self._started: raise ClientNotStartedError()
\* (client.py:196, 256, 278, 304, 331, 365, 385)
NotStarted_never(s) == FALSE
NotStarted(s) == ~s

\* the methods guarded by _started
ClientMethods ==
    {"get_store_list", "find_stores_by_name", "open_store", "open_store_by_name",
     "open_stores_by_names", "close_store", "update_core"}

\* What a delegated call can be: the requests it sends and the exception it
\* ends with ("" when it returns). open_store_by_name that finds no store
\* sends no startBrowser request; open_stores_by_names swallows the
\* failures of its tasks.
ManagerCall(op) ==
    CASE op \in {"get_store_list", "find_stores_by_name"} ->
           { [events |-> <<"request:getBrowserList">>, exc |-> e] :
               e \in {"", "StoreOperationError"} }
      [] op = "open_store" ->
           { [events |-> <<"request:startBrowser">>, exc |-> e] :
               e \in {"", "StoreOperationError"} }
      [] op = "open_store_by_name" ->
           { [events |-> <<"request:getBrowserList", "request:startBrowser">>,
              exc |-> e] : e \in {"", "StoreOperationError"} }
           \cup { [events |-> <<"request:getBrowserList">>,
                   exc |-> "StoreNotFoundError"] }
      [] op = "open_stores_by_names" ->
           { [events |-> <<"request:getBrowserList", "request:startBrowser">>,
              exc |-> ""] }
      [] op = "close_store" ->
           { [events |-> <<"request:stopBrowser">>, exc |-> e] :
               e \in {"", "StoreOperationError"} }
      [] op = "update_core" ->
           { [events |-> <<"request:updateCore">>, exc |-> e] :
               e \in {"", "CoreUpdateError"} }

\* ZiniaoClient.__init__ (client.py:54-87)
ClientInit ==
    /\ started = FALSE
    /\ process = "none"
    /\ c_last = NoClientCall
    /\ c_why = "new"
    /\ c_calls = 0

\* start() (client.py:117-153). kill_existing_process returns True or raises
\* ProcessError (process.py:48-87); start_browser may raise
\* BrowserStartError; update_core runs after _started = True
Start ==
    /\ c_calls < MaxClientCalls
    /\ c_calls' = c_calls + 1
    /\ \E kill \in {"True", "ProcessError"},
          launch \in {"", "BrowserStartError"},
          update \in {"none", "", "CoreUpdateError"} :
         LET call == [NoClientCall EXCEPT !.op = "start", !.was_started = started]
             done(k, e, ev) == [call EXCEPT !.kind = k, !.exc = e, !.events = ev]
         IN
         IF started
         THEN /\ c_last' = done("return", "", <<>>)
              /\ UNCHANGED <<started, process, c_why>>
         ELSE IF kill = "ProcessError"
         THEN /\ c_last' = done("raise", kill, <<"kill_existing_process">>)
              /\ c_why' = "start_failed"
              /\ UNCHANGED <<started, process>>
         ELSE IF kill = "False"
         THEN /\ c_last' = done("return", "", <<"kill_existing_process">>)
              /\ c_why' = "start_cancelled"
              /\ UNCHANGED <<started, process>>
         ELSE IF launch # ""
         THEN /\ c_last' = done("raise", launch,
                                <<"kill_existing_process", "start_browser">>)
              /\ c_why' = "start_failed"
              /\ process' = IF process = "none" THEN "none" ELSE "exited"
              /\ UNCHANGED started
         ELSE /\ started' = TRUE
              /\ process' = "running"
              /\ c_why' = "start"
              /\ c_last' =
                   IF update = "none"
                   THEN done("return", "",
                             <<"kill_existing_process", "start_browser">>)
                   ELSE done(IF update = "" THEN "return" ELSE "raise", update,
                             <<"kill_existing_process", "start_browser",
                               "request:updateCore">>)
    /\ UNCHANGED notClient

\* finally: self._started = False   (client.py:178-179), whatever
\* terminate() returned
StartedAfterStop_unlessTerminated(terminated) == ~terminated
StartedAfterStop(terminated) == FALSE

\* stop() (client.py:154-180): _send_exit swallows what send_request raises
\* (client.py:400-403) and terminate returns False instead of raising
\* (process.py:245-247), so the try block runs to its end
Stop ==
    /\ c_calls < MaxClientCalls
    /\ c_calls' = c_calls + 1
    /\ LET call == [NoClientCall EXCEPT !.op = "stop", !.was_started = started,
                                        !.kind = "return"]
       IN
       IF ~started
       THEN /\ c_last' = call
            /\ UNCHANGED <<started, process, c_why>>
       ELSE \E exit \in {"sent", "failed"}, terminated \in BOOLEAN :
            /\ c_last' = [call EXCEPT !.events =
                            <<"request:exit">>
                            \o (IF exit = "failed" THEN <<"exit:failed">>
                                ELSE <<>>)
                            \o <<"sleep", "terminate">>
                            \o (IF terminated THEN <<>>
                                ELSE <<"terminate:False">>)]
            /\ started' = StartedAfterStop(terminated)
            /\ process' = IF terminated THEN "exited" ELSE "running"
            /\ c_why' = "stop"
    /\ UNCHANGED notClient

\* one of the guarded methods (client.py:182-388)
Method(op) ==
    /\ c_calls < MaxClientCalls
    /\ c_calls' = c_calls + 1
    /\ LET call == [NoClientCall EXCEPT !.op = op, !.was_started = started] IN
       IF NotStarted(started)
       THEN c_last' = [call EXCEPT !.kind = "raise",
                                   !.exc = "ClientNotStartedError"]
       ELSE \E m \in ManagerCall(op) :
              LET ended == [call EXCEPT !.events = m.events, !.exc = m.exc,
                                        !.kind = IF m.exc = "" THEN "return"
                                                 ELSE "raise"]
              IN
              IF "request:startBrowser" \in {m.events[i] : i \in DOMAIN m.events}
              THEN \E want \in Wants, style \in {"keywords", "options"} :
                     c_last' = [ended EXCEPT
                                  !.want = want, !.style = style,
                                  !.request =
                                      StartBrowserOptions(Kwargs(style, want))]
              ELSE c_last' = ended
    /\ UNCHANGED <<started, process, c_why, notClient>>

ClientNext ==
    \/ Start
    \/ Stop
    \/ \E op \in ClientMethods : Method(op)

(***************************************************************************)
(* ZiniaoClient.update_core (client.py:182-241): a while True loop that    *)
(* polls the host with send_request(data, retry_on_none=True) until the    *)
(* update is complete or max_wait_time seconds have passed. The calls of   *)
(* send_request are the Attempt steps of the HttpClient above.             *)
(***************************************************************************)
\* if time.time() - start_time > max_wait_time   (client.py:205)
DeadlinePassed_orReached(e, w) == e >= w
DeadlinePassed(e, w) == e > w

\* What update_core does with the value send_request returned
\* (client.py:218-241): "sleep" (and poll again), "return", or the
\* exception it raises. A falsy value other than None is {} (no
\* statusCode) or [] or 0 (result.get raises AttributeError).
AfterResponse(o) ==
    CASE o.kind = "Null" -> {"sleep"}
      [] o.kind = "FalsyValue" -> {"UnsupportedVersionError", "AttributeError"}
      [] o.kind = "TruthyNonDict" -> {"AttributeError"}
      [] o.kind = "DictNoStatus" -> {"UnsupportedVersionError"}
      [] OTHER ->
           IF IsAuthFailure(o.status) THEN {"UnsupportedVersionError"}
           ELSE IF o.status = 0 THEN {"return"}
           ELSE {"sleep"}

\* no update_core call has been made
UpdateIdle ==
    /\ u_pc = "idle" /\ max_wait_time = 0 /\ elapsed = 0
    /\ polls = <<>> /\ u_result = NoResult

\* update_core(max_wait_time) is called: the guard, then start_time
\* (client.py:196-201)
UpdateCore ==
    /\ u_pc = "idle"
    /\ \E w \in 0..MaxWait : max_wait_time' = w
    /\ elapsed' = 0
    /\ polls' = <<>>
    /\ IF NotStarted(started)
       THEN /\ u_pc' = "done"
            /\ u_result' = [kind |-> "raise", exc |-> "ClientNotStartedError"]
       ELSE /\ u_pc' = "check"
            /\ u_result' = NoResult
    /\ UNCHANGED <<httpVars, notUpdate>>

\* The top of the loop (client.py:203-218): the deadline check, then a new
\* request with a new requestId is handed to send_request
Poll ==
    /\ u_pc = "check"
    /\ IF DeadlinePassed(elapsed, max_wait_time)
       THEN /\ u_pc' = "done"
            /\ u_result' = [kind |-> "raise", exc |-> "CoreUpdateError"]
            /\ UNCHANGED <<polls, httpVars>>
       ELSE /\ u_pc' = "sending"
            /\ polls' = Append(polls, [id |-> uuid4(uuid_next), at |-> elapsed])
            /\ retry_on_none' = TRUE
            /\ data' = [requestId |-> uuid4(uuid_next)]
            /\ uuid_next' = uuid_next + 1
            /\ used_ids' = used_ids \cup {wire[i] : i \in DOMAIN wire}
            /\ attempt' = 0
            /\ outcomes' = <<>>
            /\ wire' = <<>>
            /\ sleeps' = 0
            /\ last_exception' = FALSE
            /\ calls' = calls + 1
            /\ h_pc' = "loop"
            /\ h_result' = NoResult
            /\ UNCHANGED <<max_retries, u_result>>
    /\ UNCHANGED <<max_wait_time, elapsed, notUpdate>>

\* send_request has ended (client.py:218-241): what it raised leaves
\* update_core; what it returned is examined, and time.sleep(2) precedes
\* the next turn of the loop. The call took d seconds.
Receive ==
    /\ u_pc = "sending" /\ h_pc = "done"
    /\ \E d \in 0..MaxDelay :
         IF h_result.kind = "raise"
         THEN /\ u_pc' = "done"
              /\ u_result' = h_result
              /\ elapsed' = elapsed + d
         ELSE \E b \in AfterResponse(h_result.value) :
                IF b = "sleep"
                THEN /\ u_pc' = "check"
                     /\ elapsed' = elapsed + d + SleepSeconds
                     /\ UNCHANGED u_result
                ELSE /\ u_pc' = "done"
                     /\ elapsed' = elapsed + d
                     /\ u_result' = IF b = "return" THEN [kind |-> "return"]
                                    ELSE [kind |-> "raise", exc |-> b]
    /\ UNCHANGED <<max_wait_time, polls, httpVars, notUpdate>>

UpdateNext ==
    \/ UpdateCore
    \/ Poll
    \/ Attempt
    \/ Receive

vars == <<httpVars, sessionVars, storeVars, batchVars, clientVars, updateVars>>

\* The HttpClient before any call, with the default max_retries.
HttpIdle ==
    /\ max_retries = 3 /\ h_pc = "idle" /\ retry_on_none = FALSE
    /\ data = [requestId |-> 0] /\ attempt = 0 /\ outcomes = <<>>
    /\ wire = <<>> /\ sleeps = 0 /\ h_result = NoResult /\ uuid_next = 1
    /\ used_ids = {} /\ calls = 0 /\ last_exception = FALSE

\* One session that nobody touches.
SessionIdle ==
    /\ closed = FALSE /\ browser = "Chromium" /\ close_callback = TRUE
    /\ ip_check_url = FALSE /\ launcher_page = FALSE /\ teardown = 0
    /\ callback_error = FALSE
    /\ s_pc = [t \in SThreads |-> "idle"] /\ s_res = [t \in SThreads |-> NoOp]
    /\ close_calls = 0 /\ overlapped = FALSE

\* A client nobody calls.
ClientIdle == ClientInit

\* No batch call in progress.
BatchIdle ==
    /\ b_pc = "idle" /\ store_names = <<>> /\ max_workers = 3
    /\ exact_mode = FALSE /\ futures = <<>> /\ yielded = {} /\ sessions = {}

InitHttp == HttpInit /\ SessionIdle /\ StoreInit /\ BatchIdle /\ ClientIdle /\ UpdateIdle
SpecHttp == InitHttp /\ [][HttpNext]_vars

\* requests.post is given timeout=self.timeout (http_client.py:85-90), so
\* every network call ends and the loop iteration it is in is taken
SpecHttpFair == SpecHttp /\ WF_vars(Attempt)

InitSession == SessionInit /\ HttpIdle /\ StoreInit /\ BatchIdle /\ ClientIdle /\ UpdateIdle
SpecSession == InitSession /\ [][SessionNext]_vars

InitStore == StoreInit /\ HttpIdle /\ SessionIdle /\ BatchIdle /\ ClientIdle /\ UpdateIdle
SpecStore == InitStore /\ [][StoreNext]_vars
SpecStoreSeq == InitStore /\ [][StoreSeqNext]_vars

InitBatch == StoreInit /\ BatchIdle /\ HttpIdle /\ SessionIdle /\ ClientIdle /\ UpdateIdle
SpecBatch == InitBatch /\ [][BatchNext]_vars

InitClient == ClientInit /\ HttpIdle /\ SessionIdle /\ StoreInit /\ BatchIdle /\ UpdateIdle
SpecClient == InitClient /\ [][ClientNext]_vars

\* the client after start() (client.py:147)
ClientStarted ==
    /\ started = TRUE /\ process = "running" /\ c_why = "start"
    /\ c_calls = 1
    /\ c_last = [NoClientCall EXCEPT
                   !.op = "start", !.kind = "return",
                   !.events = <<"kill_existing_process", "start_browser">>]

InitUpdate ==
    /\ UpdateIdle /\ HttpInit /\ ClientStarted
    /\ SessionIdle /\ StoreInit /\ BatchIdle
SpecUpdate == InitUpdate /\ [][UpdateNext]_vars

\* every send_request attempt ends (requests.post has a timeout),
\* time.sleep(2) ends, and the loop goes on
SpecUpdateFair ==
    SpecUpdate /\ WF_vars(Poll) /\ WF_vars(Attempt) /\ WF_vars(Receive)

(***************************************************************************)
(* Claims about HttpClient.send_request, checked under SpecHttp.           *)
(***************************************************************************)
Done == h_pc = "done"
Raised(e) == h_result = [kind |-> "raise", exc |-> e]
AllConnectionErrors ==
    \A i \in DOMAIN outcomes : outcomes[i] = Outcome("ConnectionError")

\* C1: with max_retries = N, a call whose every attempt met a connection
\* failure ends only after exactly N+1 attempts, and it ends by raising
\* CommunicationError, never by returning a value.
C1_ConnectionFailureAttempts ==
    (Done /\ AllConnectionErrors) =>
        /\ Len(outcomes) = max_retries + 1
        /\ Raised("CommunicationError")

C1_Witness ==
    /\ Done /\ AllConnectionErrors
    /\ max_retries = 2 /\ Len(outcomes) = 3 /\ sleeps = 2
    /\ Raised("CommunicationError")

\* C2: once an attempt has received statusCode -10003 the call has ended,
\* that attempt was its last one, no retry delay followed it, and the error
\* raised is AuthenticationError.
C2_AuthRaisedImmediately ==
    \A i \in DOMAIN outcomes :
        outcomes[i] = DictOutcome(AUTH_FAILED) =>
            /\ Done
            /\ i = Len(outcomes)
            /\ sleeps = i - 1
            /\ Raised("AuthenticationError")

C4_ConcurrentCloseOnce == teardown <= 1

\* C5: close() calls that follow one another (none begins while another is
\* in progress) invoke the close callback at most once in total, and every
\* one of them returns normally.
C5_SequentialCloseOnce ==
    ~overlapped =>
        /\ teardown <= 1
        /\ \A t \in SThreads : s_res[t].op = "close" => s_res[t].kind = "return"

C5_Witness ==
    /\ ~overlapped /\ close_calls >= 2 /\ teardown = 1
    /\ \A t \in SThreads : s_pc[t] = "idle"
    /\ \E t \in SThreads : s_res[t] = Return("close", "noop")

\* the error a closed session answers with
SessionClosedError(r) == r.kind = "raise" /\ r.val = "ZiniaoError:closed"

\* a thread is outside close() and the session is closed
\* C6: an operation other than close() that ran on a closed session ended
\* with the session-closed error.
C6_ClosedSessionRejectsOperations ==
    [][\A t \in SThreads :
          (closed /\ s_res'[t] # s_res[t] /\ s_res'[t].op # "close")
              => SessionClosedError(s_res'[t])]_vars


(***************************************************************************)
(* Claims about open_stores_by_names, checked under SpecBatch.             *)
(***************************************************************************)
\* the tasks whose open_store_by_name returned a session
Succeeded == {i \in DOMAIN futures : futures[i].session # 0}

\* C7: when open_stores_by_names has returned, the keys of the map are
\* exactly the names of the tasks that succeeded; and with max_workers >= 1
\* the call never ends by raising, whatever the tasks did.
C7_BatchKeysAreSuccesses ==
    /\ b_pc = "returned" =>
         Keys(sessions) = {store_names[i] : i \in Succeeded}
    /\ b_pc = "raised" => max_workers <= 0

C7_Witness ==
    /\ b_pc = "returned"
    /\ Len(store_names) = 2
    /\ \E i, j \in DOMAIN futures :
         /\ futures[i].session # 0
         /\ futures[j] = [state |-> "done", session |-> 0]
         /\ Keys(sessions) = {store_names[i]}
         /\ store_names[j] # store_names[i]

\* the tasks in progress
InProgress == {i \in DOMAIN futures : futures[i].state = "running"}

\* C8: at no moment are more than max_workers tasks in progress.
C8_AtMostMaxWorkersInProgress ==
    b_pc = "collect" => Cardinality(InProgress) <= max_workers

C8_Witness ==
    /\ b_pc = "collect" /\ max_workers = 1
    /\ Cardinality(InProgress) = 1
    /\ \E j \in DOMAIN futures : futures[j].state = "queued"
    /\ \E t \in Threads : th[t].task # 0 /\ th[t].pc = "opening"

(***************************************************************************)
(* Claims about the listing cache, checked under SpecStore (threads run    *)
(* concurrently) and SpecStoreSeq (one caller).                            *)
(***************************************************************************)
IsPrefix(s, t) == Len(s) <= Len(t) /\ s = SubSeq(t, 1, Len(s))

\* C9: the elements a find_stores_by_name loop has read are, at every moment,
\* the first elements of the one listing it was handed, a complete listing
\* of some response; a loop that ran to its end has read exactly
\* that listing. This holds whatever refreshes run meanwhile.
C9_ReaderSeesOneSnapshot ==
    \A t \in Threads :
        LET l == th[t] IN
        /\ IsPrefix(l.seen, l.snap)
        /\ l.snap \in RemoteListings
        /\ (l.op.name = "find_stores_by_name" /\ l.res.kind = "return")
               => l.seen = l.snap

C9_Witness ==
    \E t \in Threads :
        LET l == th[t] IN
        /\ l.pc = "iter" /\ l.idx = 2 /\ Len(l.seen) = 1
        /\ cache # 0 /\ cache # l.store_list
        /\ lists[cache] # l.snap /\ lists[cache] # <<>>
        /\ \E u \in Threads \ {t} : th[u].res.ref = cache

\* C10: a finished get_store_list(use_cache) call. If use_cache was true and
\* the cache held a snapshot, it sent no request and returned that snapshot.
\* Otherwise it sent exactly one listing request; on statusCode 0 the cache
\* is the list of that response and that list is returned; on any other
\* statusCode it raised StoreOperationError with that code and the message,
\* and left the cache alone.
C10_GetStoreList ==
    \A t \in Callers :
        LET l == th[t] IN
        (l.op.name = "get_store_list" /\ l.res.kind # "none") =>
            IF l.op.uc /\ l.c_read # 0
            THEN /\ l.sent.list = 0
                 /\ l.res = [Returns EXCEPT !.ref = l.c_read]
                 /\ cache = l.c_read
            ELSE /\ l.sent.list = 1
                 /\ (l.resp.kind = "dict" /\ l.resp.status = 0) =>
                        /\ l.res.kind = "return"
                        /\ l.res.ref # 0
                        /\ cache = l.res.ref
                        /\ lists[cache] = l.resp.listing
                 /\ (l.resp.kind = "dict" /\ l.resp.status # 0) =>
                        /\ l.res.kind = "raise"
                        /\ l.res.exc = "StoreOperationError"
                        /\ l.res.code = l.resp.status
                        /\ l.res.message = MessageOf(l.resp)
                        /\ cache = l.c_read
                 /\ l.res.kind = "return" =>
                        (l.resp.kind = "dict" /\ l.resp.status = 0)

C10_Witness ==
    \E t \in Callers :
        LET l == th[t] IN
        /\ l.op.name = "get_store_list" /\ l.op.uc
        /\ l.c_read # 0 /\ lists[l.c_read] = <<>>
        /\ l.sent.list = 0
        /\ l.res = [Returns EXCEPT !.ref = l.c_read]


\* the step is a successful refresh: a thread that waited for the listing
\* response got a dict with statusCode 0, and the cache is its listing
Refreshed ==
    \E t \in Threads :
        /\ th[t].pc = "listing" /\ th'[t].pc # "listing"
        /\ th'[t].resp.kind = "dict" /\ th'[t].resp.status = 0
        /\ cache' # 0 /\ cache' \in DOMAIN lists'
        /\ lists'[cache'] = th'[t].resp.listing

\* the step is a clear_cache call
Cleared ==
    /\ cache' = 0
    /\ \E t \in Threads :
         /\ th[t].pc = "idle" /\ th'[t].op.name = "clear_cache"
         /\ \A u \in Threads \ {t} : th'[u] = th[u]

\* C11 as stated: every step that changes the listing cache is a successful
\* (statusCode 0) refresh by get_store_list.
C11_OnlyRefreshWritesCache ==
    [][cache' # cache => Refreshed]_vars

\* C11 as amended: every step that changes the listing cache is a successful
\* refresh by get_store_list or a clear_cache call, which resets it to None.
C11_OnlyRefreshOrClearWritesCache ==
    [][cache' # cache => (Refreshed \/ Cleared)]_vars

\* a failed listing request has ended and the cache it found is still there
C11_Witness ==
    \E t \in Threads :
        /\ th[t].op.name = "get_store_list" /\ th[t].pc = "idle"
        /\ th[t].res.exc = "StoreOperationError"
        /\ th[t].c_read # 0 /\ cache = th[t].c_read


(***************************************************************************)
(* Claims about the search by name, checked under SpecStore. What a search *)
(* has to find is stated letter by letter, without lower().                *)
(***************************************************************************)
\* a and b are the same letter, ignoring case
SameLetter(a, b) ==
    a = b \/ {a, b} \in {{"A", "a"}, {"B", "b"}, {"X", "x"}}

EqualsIgnoringCase(name, q) ==
    Len(name) = Len(q) /\ \A i \in 1..Len(q) : SameLetter(name[i], q[i])

ContainsIgnoringCase(name, q) ==
    \E k \in 0..(Len(name) - Len(q)) :
        \A i \in 1..Len(q) : SameLetter(name[k + i], q[i])

\* the descriptors of the listing the search of l was handed that match its
\* query, in listing order
ExpectedMatches(l) ==
    LET Test(store) ==
            IF l.op.exact THEN EqualsIgnoringCase(store.browserName, l.op.q)
            ELSE ContainsIgnoringCase(store.browserName, l.op.q)
    IN SelectSeq(l.snap, Test)

\* the search of l got a listing and has run through it
Searched(l) ==
    /\ l.store_list # 0
    /\ l.pc \in {"opening", "name", "name_loop", "session"}
       \/ (l.pc = "idle" /\ l.res.kind # "none")

\* C12: open_store_by_name has sent an open request only if its search
\* found exactly one match; with no match it has raised StoreNotFoundError
\* carrying the query; with k > 1 matches it has raised
\* MultipleStoresFoundError carrying the query, k and the k matched names in
\* listing order, duplicates included.
C12_NoOpenUnlessOneMatch ==
    \A t \in Threads :
        LET l == th[t]
            e == ExpectedMatches(l)
        IN
        l.op.name = "open_store_by_name" =>
            /\ l.sent.open <= 1
            /\ l.sent.open = 1 => Len(e) = 1
            /\ (Searched(l) /\ Len(e) = 0) =>
                   /\ l.res = [Raises("StoreNotFoundError") EXCEPT !.sname = l.op.q]
                   /\ l.sent.open = 0
            /\ (Searched(l) /\ Len(e) > 1) =>
                   /\ l.res = [Raises("MultipleStoresFoundError") EXCEPT
                                 !.sname = l.op.q, !.code = Len(e),
                                 !.items = [i \in 1..Len(e) |-> e[i].browserName]]
                   /\ l.sent.open = 0

C12_Witness ==
    \E t \in Threads :
        LET l == th[t] IN
        /\ l.op.name = "open_store_by_name" /\ l.pc = "idle"
        /\ l.snap = <<StoreAbTwin, StoreAb>>
        /\ l.res.exc = "MultipleStoresFoundError"
        /\ l.res.code = 2
        /\ l.res.items = << <<"A", "b">>, <<"A", "b">> >>
        /\ l.sent.open = 0


\* C13: when the search of open_store_by_name found exactly one match, the
\* open request it sends is for that match's browserOauth, and it sends just
\* one; if that browserOauth is empty it has raised StoreOperationError and
\* sent no open request.
C13_SingleMatchDelegates ==
    \A t \in Threads :
        LET l == th[t]
            e == ExpectedMatches(l)
        IN
        (l.op.name = "open_store_by_name" /\ Searched(l) /\ Len(e) = 1) =>
            IF e[1].browserOauth = ""
            THEN /\ l.sent.open = 0
                 /\ l.res = [Raises("StoreOperationError") EXCEPT
                               !.sname = l.op.q, !.message = "empty oauth"]
            ELSE /\ l.sent.open = 1
                 /\ l.ident = e[1].browserOauth

\* the one match has no usable browserOauth
C13_Witness ==
    \E t \in Threads :
        LET l == th[t] IN
        /\ l.op.name = "open_store_by_name" /\ l.pc = "idle"
        /\ ExpectedMatches(l) = <<Storeab>>
        /\ l.res.exc = "StoreOperationError"
        /\ l.sent.open = 0

\* the one match has a browserOauth and the open request for it is out
C13_WitnessDelegated ==
    \E t \in Threads :
        LET l == th[t] IN
        /\ l.op.name = "open_store_by_name" /\ l.pc = "opening"
        /\ ExpectedMatches(l) = <<StoreAb>> /\ Len(l.snap) = 2
        /\ l.ident = "oa1" /\ l.sent.open = 1

\* C14: find_stores_by_name returns exactly the descriptors of its listing
\* whose name matches the query, in listing order and without
\* deduplication: with exact matching a name matches iff it equals the query
\* ignoring case only, with fuzzy matching iff it contains the query
\* ignoring case.
C14_FindReturnsMatchesInOrder ==
    \A t \in Threads :
        LET l == th[t] IN
        (l.op.name = "find_stores_by_name" /\ l.res.kind = "return") =>
            l.res.items = ExpectedMatches(l)

\* an exact search for "ab" over a listing that also holds "ab " (trailing
\* space) has returned the store named "Ab" only
C14_Witness ==
    \E t \in Threads :
        LET l == th[t] IN
        /\ l.op.name = "find_stores_by_name" /\ l.op.exact
        /\ l.op.q = <<"a", "b">>
        /\ l.snap = <<StoreAb, Storeab>>
        /\ l.res.kind = "return" /\ l.res.items = <<StoreAb>>


(***************************************************************************)
(* Further claims about HttpClient.send_request, checked under SpecHttp.   *)
(***************************************************************************)
\* C15: a call whose first response was malformed (a body that is not JSON,
\* or JSON that is no object, such as [1] or 5) has ended after that one
\* attempt by raising the malformed-response failure, CommunicationError.
C15_MalformedNeverRetried ==
    (Len(outcomes) >= 1 /\ outcomes[1].kind \in {"BadJson", "TruthyNonDict"}) =>
        /\ Done
        /\ Len(outcomes) = 1
        /\ sleeps = 0
        /\ Raised("CommunicationError")

\* every attempt so far met a timeout or a connection failure
AllTransportFailures ==
    \A i \in DOMAIN outcomes : outcomes[i].kind \in {"Timeout", "ConnectionError"}

\* the typed failure for an attempt that met outcome o
TypedFailure(o) ==
    IF o.kind = "Timeout" THEN "TimeoutError" ELSE "CommunicationError"

\* C16: while every attempt meets a timeout or a connection failure, each
\* failed attempt but the last of the max_retries + 1 is followed by a retry
\* delay and another attempt; the call ends only after max_retries + 1
\* attempts, by raising the typed failure of the final attempt, and never
\* returns a value.
C16_TransportFailuresExhaustBudget ==
    AllTransportFailures =>
        /\ h_result.kind # "return"
        /\ Len(outcomes) <= max_retries + 1
        /\ ~Done => sleeps = Len(outcomes)
        /\ Done =>
             /\ Len(outcomes) = max_retries + 1
             /\ sleeps = max_retries
             /\ Raised(TypedFailure(outcomes[Len(outcomes)]))

C16_Witness ==
    /\ Done /\ max_retries = 2
    /\ outcomes = <<Outcome("ConnectionError"), Outcome("Timeout"), Outcome("Timeout")>>
    /\ sleeps = 2
    /\ Raised("TimeoutError")

\* C17: an attempt that received a response object with a statusCode other
\* than -10003 was the last attempt of its call: the call has returned that
\* response as it is, with no retry delay after it. As the first response of
\* a call it makes the call a single request.
C17_BusinessStatusReturnedAsIs ==
    \A i \in DOMAIN outcomes :
        (outcomes[i].kind = "Dict" /\ outcomes[i].status # AUTH_FAILED) =>
            /\ Done
            /\ i = Len(outcomes)
            /\ sleeps = i - 1
            /\ h_result = [kind |-> "return", value |-> outcomes[i]]

C17_Witness ==
    /\ Done /\ max_retries >= 1
    /\ outcomes = <<DictOutcome(-1)>>
    /\ Len(wire) = 1 /\ sleeps = 0
    /\ h_result = [kind |-> "return", value |-> DictOutcome(-1)]

\* the attempts of the call that met something other than a null response
NonNull == {i \in DOMAIN outcomes : outcomes[i].kind # "Null"}

\* C18: with retry_on_none, null responses are not counted against
\* max_retries: a call that met only null responses, timeouts and connection
\* failures and has raised TimeoutError or CommunicationError met
\* max_retries + 1 timeouts or connection failures.
C18_NullsDoNotConsumeBudget ==
    (/\ Done /\ retry_on_none
     /\ h_result.kind = "raise"
     /\ \A i \in DOMAIN outcomes :
          outcomes[i].kind \in {"Null", "Timeout", "ConnectionError"})
        => Cardinality(NonNull) = max_retries + 1


(***************************************************************************)
(* Claims about open_store and close_store, checked under SpecStore.       *)
(***************************************************************************)
\* the identifier is written with digits only
PurelyNumeric(id) ==
    LET cs == Chars(id) IN
    Len(cs) >= 1 /\ \A i \in 1..Len(cs) : cs[i] \in Digits

\* C19: every startBrowser and stopBrowser request carries exactly one of
\* the fields browserId and browserOauth; a startBrowser request carries
\* browserId when its identifier is written with digits only and
\* browserOauth otherwise.
C19_OneIdentifierField ==
    \A t \in Threads :
        LET r == th[t].req IN
        r.action \in {"startBrowser", "stopBrowser"} =>
            /\ r.fields \in {{"browserId"}, {"browserOauth"}}
            /\ r.value = th[t].ident
            /\ r.action = "startBrowser" =>
                 (r.fields = {"browserId"} <=> PurelyNumeric(r.value))

C19_Witness ==
    \E t \in Threads :
        /\ th[t].pc = "opening"
        /\ th[t].req = [action |-> "startBrowser", fields |-> {"browserId"},
                        value |-> "77"]

\* C20: an open_store whose open request was answered with a statusCode
\* other than 0 has ended by raising StoreOperationError with the identifier
\* it asked for, that status code and the message; it has built no
\* BrowserSession (so no IP check and no navigation ran) and has sent the
\* open request once.
C20_OpenFailure ==
    \A t \in Threads :
        LET l == th[t] IN
        (/\ l.op.name \in {"open_store", "open_store_by_name"}
         /\ l.sent.open >= 1 /\ l.pc # "opening"
         /\ l.resp.kind = "dict" /\ l.resp.status # 0) =>
            /\ l.pc = "idle"
            /\ l.res = [Raises("StoreOperationError") EXCEPT
                          !.sid = l.req.value, !.code = l.resp.status,
                          !.message = MessageOf(l.resp)]
            /\ ~l.built
            /\ l.sent.open = 1

C20_Witness ==
    \E t \in Threads :
        LET l == th[t] IN
        /\ l.op.name = "open_store" /\ l.pc = "idle"
        /\ l.req.value = "77"
        /\ l.resp = Response("dict", -1, "boom", NoListing, "")
        /\ l.res.exc = "StoreOperationError" /\ l.res.code = -1
        /\ l.res.message = "boom" /\ l.res.sid = "77"
        /\ ~l.built


(***************************************************************************)
(* Further claims about BrowserSession, checked under SpecSession.         *)
(***************************************************************************)
\* C24: a close() never ends by raising, whatever its callback did; once a
\* close() has logged a failure of its callback and no close() stands
\* between the callback and the assignment, and whenever a close() has
\* returned, the session is closed (is_closed() returns _closed).
C24_CloseSurvivesCallbackFailure ==
    /\ \A t \in SThreads :
          s_res[t].op = "close" => (s_res[t].kind = "return" /\ closed)
    /\ (callback_error /\ \A t \in SThreads : s_pc[t] # "mark") => closed

\* a close() whose callback raised has returned, and is_closed() then
\* returned True
C24_Witness ==
    \E t, u \in SThreads :
        /\ callback_error /\ teardown = 1
        /\ s_pc[t] = "idle" /\ s_pc[u] = "idle"
        /\ s_res[t] = Return("close", "closed")
        /\ s_res[u] = Return("is_closed", "True")

\* C25: a session starts open, and no step of any operation takes a closed
\* session back to open.
C25_ClosedIsTerminal ==
    /\ ~closed
    /\ [][closed => closed']_vars

\* a closed session on which a second close() and a navigate have ended
C25_Witness ==
    \E t, u \in SThreads :
        /\ closed /\ close_calls >= 2
        /\ s_res[t] = Return("close", "noop")
        /\ s_res[u] = Raise("navigate", "ZiniaoError:closed")

\* C27: in every state of the session, check_ip with or without an explicit
\* URL, against a ready, a timing out or a failing page, returns and never
\* raises; with no URL at all it returns True without fetching anything;
\* the URL it fetches is the argument when one was passed and the captured
\* one otherwise; having fetched, it returns True exactly when the page was
\* ready; when the tab cannot be had it returns False.
C27_CheckIp ==
    /\ \A t \in SThreads : s_res[t].op = "check_ip" => s_res[t].kind = "return"
    /\ \A arg \in BOOLEAN, page \in PageBehaviours :
         LET r == check_ip(closed, browser, ip_check_url, arg, page)
             usable == get_tab(closed, browser, -1) = "tab"
         IN
         /\ r.kind = "return" /\ r.val \in {"True", "False"}
         /\ (~arg /\ ~ip_check_url) => (r.val = "True" /\ r.got = "none")
         /\ ((arg \/ ip_check_url) /\ usable) =>
              /\ r.got = (IF arg THEN "argument" ELSE "captured")
              /\ r.val = "True" <=> page = "ready"
         /\ ((arg \/ ip_check_url) /\ ~usable) =>
              (r.val = "False" /\ r.got = "none")

\* on an open session with a captured URL two checks have ended, one with
\* True and one with False
C27_Witness ==
    \E t, u \in SThreads :
        /\ ~closed /\ ip_check_url
        /\ s_res[t] = Return("check_ip", "False")
        /\ s_res[u] = Return("check_ip", "True")

(***************************************************************************)
(* Claims about open_store after a successful response, checked under      *)
(* SpecStore.                                                              *)
(***************************************************************************)
\* open_store of l has ended after it built a BrowserSession
OpenEnded(l) == l.built /\ l.pc = "idle"

\* C21: an open_store that built its BrowserSession fails only because the
\* constructor could not connect or because open_launcher_page raised: when
\* the last thing it did was the IP check, whatever the check returned, or
\* when the check was skipped and there was no launcher page, it has
\* returned the session.
C21_ReadinessNeverFailsOpen ==
    \A t \in Threads :
        LET l == th[t] IN
        OpenEnded(l) =>
            /\ l.res.kind = "raise" =>
                 \/ ~l.env.connected
                 \/ (l.log # <<>> /\ l.log[Len(l.log)] = "open_launcher_page:raised")
            /\ (l.env.connected /\ ~l.env.launcher) =>
                 /\ l.res.kind = "return"
                 /\ l.res.sid = BrowserOauth(l)

\* the IP check returned False, there was no launcher page, the session is
\* returned
C21_Witness ==
    \E t \in Threads :
        LET l == th[t] IN
        /\ OpenEnded(l) /\ l.env.ipurl
        /\ l.log = <<"check_ip:False">>
        /\ l.res.kind = "return"

\* C22: an open_store that built and connected its BrowserSession has called
\* open_launcher_page iff the response carried a launcher page, as the last
\* thing it did and so after the IP check, whatever the check returned; with
\* no launcher page it has returned the session.
C22_NavigatesIffLauncherPage ==
    \A t \in Threads :
        LET l == th[t]
            nav == {i \in DOMAIN l.log :
                      l.log[i] \in {"open_launcher_page", "open_launcher_page:raised"}}
        IN
        (OpenEnded(l) /\ l.env.connected) =>
            /\ l.env.launcher <=> nav # {}
            /\ nav \subseteq {Len(l.log)}
            /\ l.env.ipurl <=> (l.log # <<>> /\ l.log[1] \in {"check_ip:True", "check_ip:False"})
            /\ ~l.env.launcher => l.res.kind = "return"

\* the IP check returned False and the launcher page was opened after it
C22_Witness ==
    \E t \in Threads :
        LET l == th[t] IN
        /\ OpenEnded(l)
        /\ l.log = <<"check_ip:False", "open_launcher_page">>
        /\ l.res.kind = "return"

\* C23: an open_store whose open request was answered never ends with the
\* TypeError of the display-name lookup, whatever the other thread does to
\* the cache meanwhile; once the lookup is done the name is a browserName of
\* the cached listing or the raw id.
C23_NameLookupNeverFails ==
    \A t \in Threads :
        LET l == th[t] IN
        (l.op.name \in {"open_store", "open_store_by_name"} /\ l.sent.open = 1) =>
            /\ l.res.exc # "TypeError"
            /\ l.pc = "session" =>
                 \/ l.sname = IdAsName(BrowserOauth(l))
                 \/ \E i \in DOMAIN lists : \E j \in DOMAIN lists[i] :
                      /\ lists[i][j].browserOauth = BrowserOauth(l)
                      /\ lists[i][j].browserName = l.sname



(***************************************************************************)
(* Further claims about open_stores_by_names, checked under SpecBatch.     *)
(***************************************************************************)
\* C26: a batch call that was made has ended by raising exactly when
\* max_workers <= 0; with max_workers >= 1 it is never stuck while it
\* collects, and what it returns is a map from names of the list to the
\* sessions of their tasks, empty when the list is empty.
C26_BatchFailsOnlyOnSetUp ==
    /\ b_pc # "idle" => (b_pc = "raised" <=> max_workers <= 0)
    /\ b_pc = "collect" => ENABLED BatchNext
    /\ b_pc = "returned" =>
         /\ \A p \in sessions :
              \E i \in DOMAIN store_names :
                  p.name = store_names[i] /\ p.session \in DOMAIN futures
         /\ store_names = <<>> => sessions = {}

\* a call with one worker and two names has returned although every one of
\* its tasks failed
C26_Witness ==
    /\ b_pc = "returned" /\ max_workers = 1
    /\ Len(store_names) = 2 /\ sessions = {}
    /\ \A i \in DOMAIN futures : futures[i] = [state |-> "done", session |-> 0]

\* a call with the empty list has returned the empty map
C26_WitnessEmptyList ==
    /\ b_pc = "returned" /\ max_workers >= 1
    /\ store_names = <<>> /\ sessions = {}


(***************************************************************************)
(* Claims about ZiniaoClient, checked under SpecClient.                    *)
(***************************************************************************)
\* C28: the startBrowser request of an open method carries, for each of the
\* nine options, the value the caller wanted and the default otherwise,
\* whether the options were passed as keywords or as a dict named options.
C28_OptionsReachRequest ==
    (c_last.op \in ClientMethods /\ DOMAIN c_last.request # {}) =>
        \A k \in DOMAIN OptionDefaults :
            c_last.request[k] = IF k \in DOMAIN c_last.want THEN c_last.want[k]
                                ELSE OptionDefaults[k]

\* C29: a guarded method called while _started was false has raised
\* ClientNotStartedError and has sent nothing, and the client is still not
\* started.
C29_NotStartedRaises ==
    (c_last.op \in ClientMethods /\ ~c_last.was_started) =>
        /\ c_last.kind = "raise"
        /\ c_last.exc = "ClientNotStartedError"
        /\ c_last.events = <<>>
        /\ ~started

\* open_store was called after a start that failed
C29_Witness ==
    /\ c_why = "start_failed"
    /\ c_last.op = "open_store" /\ ~c_last.was_started
    /\ c_last.exc = "ClientNotStartedError"

\* update_core was called after stop
C29_WitnessAfterStop ==
    /\ c_why = "stop"
    /\ c_last.op = "update_core" /\ ~c_last.was_started
    /\ c_last.exc = "ClientNotStartedError"

\* C30: a stop() of a started client has terminated the process before it
\* sent the exit command.
C30_StopTerminatesBeforeExit ==
    (c_last.op = "stop" /\ c_last.was_started) =>
        \E i, j \in DOMAIN c_last.events :
            /\ i < j
            /\ c_last.events[i] = "terminate"
            /\ c_last.events[j] = "request:exit"


(***************************************************************************)
(* Further claims about StoreManager, checked under SpecStore.             *)
(***************************************************************************)
\* C33: an open_store or open_store_by_name that has ended after its open
\* request was answered with statusCode 0 has returned the session or has
\* sent a close request for the store.
C33_OpenedStoreHasOwner ==
    \A t \in Threads :
        LET l == th[t] IN
        (/\ l.op.name \in {"open_store", "open_store_by_name"}
         /\ l.pc = "idle" /\ l.sent.open = 1
         /\ l.resp.kind = "dict" /\ StatusOk(l.resp)) =>
            \/ l.res.kind = "return"
            \/ l.sent.close > 0

\* C36: a get_store_list(use_cache=True) that has returned has returned a
\* listing some response delivered, never None, and no find_stores_by_name
\* has ended with the TypeError of iterating None, whatever clear_cache and
\* refresh calls ran on the other thread.
C36_NeverAbsentListing ==
    \A t \in Threads :
        LET l == th[t] IN
        /\ (l.op.name = "get_store_list" /\ l.op.uc /\ l.res.kind = "return") =>
               /\ l.res.ref \in DOMAIN lists
               /\ lists[l.res.ref] \in RemoteListings
        /\ l.op.name = "find_stores_by_name" => l.res.exc # "TypeError"

\* C37: a find_stores_by_name with use_cache left at True, or an
\* open_store_by_name, whose cache test found a snapshot has sent no listing
\* request; the list it searches is one of the lists the cache held, with the
\* content it was given by its response; when that list has no match for the
\* query, open_store_by_name has raised StoreNotFoundError and has sent no
\* open request.
C37_SnapshotOnly ==
    \A t \in Threads :
        LET l == th[t] IN
        (/\ \/ l.op.name = "open_store_by_name"
            \/ (l.op.name = "find_stores_by_name" /\ l.op.uc)
         /\ l.c_read # 0) =>
            /\ l.sent.list = 0
            /\ l.store_list # 0 =>
                 /\ l.store_list \in DOMAIN lists
                 /\ l.store_list >= l.c_read
                 /\ l.snap = lists[l.store_list]
            /\ (l.op.name = "open_store_by_name" /\ Searched(l)
                /\ ExpectedMatches(l) = <<>>) =>
                 /\ l.res.exc = "StoreNotFoundError"
                 /\ l.sent.open = 0

\* the cache holds the empty listing of an earlier response;
\* open_store_by_name has searched it, sent nothing and reported not found
C37_Witness ==
    \E t \in Threads :
        LET l == th[t] IN
        /\ l.op.name = "open_store_by_name" /\ l.pc = "idle"
        /\ l.c_read # 0 /\ l.snap = <<>> /\ lists[l.c_read] = <<>>
        /\ l.sent.list = 0 /\ l.sent.open = 0
        /\ l.res.exc = "StoreNotFoundError"


(***************************************************************************)
(* Further claims about open_stores_by_names, checked under SpecBatch.     *)
(***************************************************************************)
\* C34: when open_stores_by_names has returned, the map holds as many
\* sessions as tasks succeeded, so that every session a task opened is
\* reachable through the map, also when a name occurs twice in the list.
C34_EverySessionInMap ==
    b_pc = "returned" =>
        /\ Cardinality(sessions) = Cardinality(Succeeded)
        /\ \A i \in Succeeded : \E p \in sessions : p.session = i

\* C35: open_stores_by_names submits exactly one open_store_by_name task
\* per element of the names list, and when it has returned every one of
\* them has finished: no pool thread is inside a task, so that no request
\* of the batch is sent after the return.
C35_ReturnsAfterAllTasks ==
    /\ b_pc \in {"collect", "returned"} =>
         /\ DOMAIN futures = DOMAIN store_names
         /\ \A t \in Threads :
              th[t].task # 0 =>
                 /\ th[t].task \in DOMAIN futures
                 /\ futures[th[t].task].state = "running"
                 /\ th[t].op.name = "open_store_by_name"
                 /\ th[t].op.q = store_names[th[t].task]
                 /\ \A u \in Threads : th[u].task = th[t].task => u = t
    /\ b_pc = "returned" =>
         /\ \A i \in DOMAIN futures : futures[i].state = "done"
         /\ yielded = DOMAIN futures
         /\ \A t \in Threads : th[t].task = 0 /\ th[t].pc = "idle"
         /\ ~ \E t \in Threads : ENABLED Step(t)

C35_Witness ==
    /\ b_pc = "returned"
    /\ max_workers = 1
    /\ Len(store_names) = 2
    /\ \A i \in DOMAIN futures : futures[i].state = "done"
    /\ Succeeded # {}


(***************************************************************************)
(* Further claims about HttpClient.send_request, checked under             *)
(* SpecHttpFair: every network call ends.                                  *)
(***************************************************************************)
\* the JSON values json.loads returns
Parsed == {o \in Outcomes : o.kind \in {"Null", "FalsyValue", "TruthyNonDict",
                                        "DictNoStatus", "Dict"}}

\* the exception classes of the package send_request raises
TypedErrors == {"TimeoutError", "CommunicationError", "AuthenticationError"}

\* C38: send_request never makes more than max_retries + 1 delivery
\* attempts, whatever each attempt meets and whatever retry_on_none is; a
\* call that has ended made at least one attempt and either returned the
\* response its last attempt parsed or raised a typed error; and every
\* call that is in its loop ends.
C38_EndsWithinBound ==
    /\ [](/\ Len(outcomes) <= max_retries + 1
          /\ Len(wire) = Len(outcomes)
          /\ Done =>
               /\ Len(outcomes) >= 1
               /\ \/ /\ h_result.kind = "return"
                     /\ outcomes[Len(outcomes)] \in Parsed
                     /\ h_result.value = outcomes[Len(outcomes)]
                  \/ /\ h_result.kind = "raise"
                     /\ h_result.exc \in TypedErrors)
    /\ (h_pc = "loop") ~> Done

C38_Witness ==
    /\ Done /\ retry_on_none
    /\ max_retries = 2 /\ Len(outcomes) = 3
    /\ outcomes[1] = Outcome("Null")
    /\ outcomes[2] = DictOutcome(AUTH_FAILED)
    /\ outcomes[3] = Outcome("Null")
    /\ h_result = [kind |-> "return", value |-> Outcome("Null")]


(***************************************************************************)
(* Further claims about ZiniaoClient, checked under SpecClient.            *)
(***************************************************************************)
\* what a call did, as a set
Events(c) == {c.events[i] : i \in DOMAIN c.events}

\* C39: a start() of a started client has killed and launched nothing; the
\* client is started only by a start() whose process launch succeeded; a
\* stop() of a client that is not started has sent no exit request and
\* terminated nothing; and after a stop() of a started client the client
\* is not started, also when the exit command could not be sent or the
\* process could not be terminated.
C39_Lifecycle ==
    /\ (c_last.op = "start" /\ c_last.was_started) =>
          /\ c_last.events = <<>> /\ c_last.kind = "return" /\ started
    /\ (c_last.op = "start" /\ ~c_last.was_started) =>
          /\ started <=> c_last.exc \notin {"ProcessError", "BrowserStartError"}
          /\ started => /\ "start_browser" \in Events(c_last)
                        /\ process = "running"
    /\ started => c_why = "start"
    /\ (c_last.op = "stop" /\ ~c_last.was_started) =>
          /\ c_last.events = <<>> /\ c_last.kind = "return" /\ ~started
    /\ (c_last.op = "stop" /\ c_last.was_started) =>
          /\ ~started /\ c_last.kind = "return"
          /\ {"request:exit", "terminate"} \subseteq Events(c_last)

\* a stop() of a started client whose exit command failed and whose
\* process could not be terminated
C39_Witness ==
    /\ c_last.op = "stop" /\ c_last.was_started
    /\ {"exit:failed", "terminate:False"} \subseteq Events(c_last)
    /\ process = "running"
    /\ ~started

\* a second start() of a started client
C39_WitnessStartTwice ==
    /\ c_last.op = "start" /\ c_last.was_started
    /\ c_last.events = <<>> /\ started /\ c_calls = 2


(***************************************************************************)
(* Claims about ZiniaoClient.update_core, checked under SpecUpdate and,    *)
(* for termination, SpecUpdateFair.                                        *)
(***************************************************************************)
\* the value the last send_request of update_core returned is o
LastResponse(o) == h_result = [kind |-> "return", value |-> o]

\* the responses after which update_core sleeps and polls again
PollAgain == {o \in Parsed : AfterResponse(o) = {"sleep"}}

\* C31: update_core returns only after a response with statusCode 0; every
\* poll carries a requestId no earlier poll carried and begins with no
\* more than max_wait_time elapsed; after a null response or a response
\* with another non-zero statusCode it sleeps and polls again, so that
\* such a response ends the call only through the deadline; CoreUpdateError
\* is raised only with more than max_wait_time elapsed; and every call
\* ends.
C31_PollsUntilDoneOrDeadline ==
    /\ [](/\ u_result.kind = "return" => LastResponse(DictOutcome(0))
          /\ \A i, j \in DOMAIN polls : i # j => polls[i].id # polls[j].id
          /\ \A i \in DOMAIN polls :
                /\ polls[i].at <= max_wait_time
                /\ i > 1 => polls[i].at >= polls[i-1].at + SleepSeconds
          /\ \A i \in DOMAIN wire : wire[i] = polls[Len(polls)].id
          /\ (u_pc = "check" /\ polls # <<>>) =>
                /\ \E o \in PollAgain : LastResponse(o)
                /\ elapsed >= polls[Len(polls)].at + SleepSeconds
          /\ (u_pc = "done" /\ \E o \in PollAgain : LastResponse(o)) =>
                u_result = [kind |-> "raise", exc |-> "CoreUpdateError"]
          /\ u_result = [kind |-> "raise", exc |-> "CoreUpdateError"] =>
                elapsed > max_wait_time)
    /\ (u_pc \in {"check", "sending"}) ~> (u_pc = "done")

\* a call that polled twice, the second time after a retry, and returned
C31_Witness ==
    /\ u_pc = "done" /\ u_result.kind = "return"
    /\ Len(polls) = 2 /\ polls[2].at > 0
    /\ Len(outcomes) = 2
    /\ LastResponse(DictOutcome(0))

\* a call that the deadline ended after two polls
C31_WitnessDeadline ==
    /\ u_pc = "done" /\ u_result = [kind |-> "raise", exc |-> "CoreUpdateError"]
    /\ Len(polls) = 2 /\ max_wait_time = 3 /\ elapsed > 3
    /\ LastResponse(Outcome("Null"))

\* C32: an update_core whose last request was answered with a response
\* that has no statusCode, or with statusCode -10003, has raised
\* UnsupportedVersionError.
C32_UnsupportedVersionRaised ==
    (/\ u_pc = "done" /\ outcomes # <<>>
     /\ outcomes[Len(outcomes)] \in {Outcome("DictNoStatus"),
                                     DictOutcome(AUTH_FAILED)}) =>
        u_result = [kind |-> "raise", exc |-> "UnsupportedVersionError"]

====
